---------------------------- MODULE Spec2Model ----------------------------
(***************************************************************************)
(* A model of mdbook-gitinfo: the roster-token scanner, the page           *)
(* decorator, the layout (message / align / margin) resolver and the       *)
(* placeholder renderer.                                                   *)
(*                                                                         *)
(* Text is a sequence of atoms.  An atom is one character (" ", "\t",      *)
(* "\n", "{", "%", "}", "~", the backtick) or one literal word that the    *)
(* program only ever handles whole ("contributors", "hash", the            *)
(* fixed pieces of the header / footer markup, "github.com", ".git").     *)
(* The texts of the model are cut into atoms so that every prefix, suffix  *)
(* and substring test the program makes on them has the same answer on the *)
(* atoms as on the characters they stand for.                              *)
(*                                                                         *)
(* An Option<T> is a sequence of length 0 (None) or 1 (Some(x)).           *)
(***************************************************************************)
EXTENDS Integers, Sequences, FiniteSets, TLC

VARIABLES
    \* replace_contributors_tokens: the state of the loop
    input,          \* the lines consumed so far (split_inclusive)
    idx,            \* number of lines consumed so far
    out,            \* the output built so far
    in_fence,       \* fenced code tracking
    fence_ch,
    fence_len,
    hist,           \* per consumed line: the state before and after it, the
                    \* arm of the loop body it took and the text it pushed
    source,         \* ContributorsSource: "Git" | "File" | "Inline"
    html_global,    \* contributors_html_global passed by the caller
    renderer,       \* what the inline_renderer closure captured
    \* GitInfo::run: the configuration and what is resolved from it
    cfg,            \* GitInfoConfig: message, template, align, margin
    layout_pc,      \* "messages" | "align" | "margins" | "resolved"
    header_tmpl,
    footer_tmpl,
    align_header,
    align_footer,
    margin_header,
    margin_footer,
    \* render_template: its arguments and its result
    tmpl,
    vals,           \* hash, long_hash, tag, date, sep, branch
    rendered,
    \* the per-chapter closure of GitInfo::run
    content,        \* ch.content
    runs,           \* how many times the chapter has been decorated
    first_pass,     \* ch.content after the first decoration
    show_header,
    show_footer,
    \* GitInfo::run: the git facts of the run and how they are displayed
    hyperlink,      \* cfg.hyperlink.unwrap_or(false)
    cfg_tag,        \* cfg.tag
    repo_env,       \* the environment variables resolve_repo_base reads
    git_remote,     \* outcome of git config --get remote.origin.url
    git_describe,   \* outcome of git describe --tags --abbrev=0 <branch>
    git_tags,       \* outcome of git tag --sort=-creatordate
    repo_base,
    resolved_tag,
    hash_disp,
    branch_disp,
    tag_disp,
    facts_pc,       \* "start" | "base" | "tag" | "display" | "rendered"
    \* GitInfo::run: the contributor roster
    git_shortlog,       \* outcome of git shortlog -sne --all
    contributors_file,  \* the contributors file: None when unreadable
    inline_args,        \* the handles written after an inline token
    roster_users,       \* users: the raw handle list of the chosen source
    roster_visible,     \* visible
    roster_hidden,      \* hidden
    derivation,         \* per shortlog line: name, email, handle, how derived
    roster_pc,          \* "start" | "global" | "inline"
    \* format_commit_datetime: its arguments, the host and its result
    raw_date,           \* raw_rfc3339
    timezone,           \* cfg.timezone
    date_format,
    time_format,
    local_offset,       \* the offset of the host's local zone, in seconds
    formatted_date,
    time_pc,            \* "start" | "done"
    \* decorate_chapters: the item walked and the order of the callbacks
    item,               \* a BookItem, as handed to decorate_chapters
    walked,             \* the item after the walk
    visited,            \* the positions of the chapters the callback was given
    walk_pc,            \* "start" | "done"
    \* ensure_gitinfo_assets: the two files and what each call did
    book_toml,          \* book.toml: None when the file does not exist
    css_file,           \* theme/gitinfo.css: None when it does not exist
    theme_hist,         \* per call: the file before and after, the result
    theme_pc,           \* "css" | "toml"
    \* GitInfo::run as a whole: configuration, branch, git calls, pages
    config_table,       \* [preprocessor.gitinfo] as found in the context
    run_cfg,            \* cfg: load_config(ctx).unwrap_or_default()
    run_branch,         \* the local variable branch
    git_calls,          \* the git commands run so far, with their branch
    pages,              \* the chapters of the book: has a path or not
    page_facts,         \* per chapter decorated: the facts it was given
    run_pc              \* "start" | "tag" | "verify" | "roster" | "walk"
                        \* | "done" | "disabled" | "panicked"

scanLoopVars == <<input, idx, out, in_fence, fence_ch, fence_len, hist>>

scanEnvVars == <<source, html_global, renderer>>

scanVars == <<scanLoopVars, scanEnvVars>>

layoutVars == <<cfg, layout_pc, header_tmpl, footer_tmpl, align_header,
                align_footer, margin_header, margin_footer>>

renderVars == <<tmpl, vals, rendered>>

pageVars == <<content, runs, first_pass, show_header, show_footer>>

factsVars == <<hyperlink, cfg_tag, repo_env, git_remote, git_describe, git_tags,
               repo_base, resolved_tag, hash_disp, branch_disp, tag_disp,
               facts_pc>>

rosterVars == <<git_shortlog, contributors_file, inline_args, roster_users,
                roster_visible, roster_hidden, derivation, roster_pc>>

timeVars == <<raw_date, timezone, date_format, time_format, local_offset,
              formatted_date, time_pc>>

walkVars == <<item, walked, visited, walk_pc>>

themeVars == <<book_toml, css_file, theme_hist, theme_pc>>

runVars == <<config_table, run_cfg, run_branch, git_calls, pages, page_facts, run_pc>>

vars == <<scanVars, layoutVars, renderVars, pageVars, factsVars, rosterVars,
          timeVars, walkVars, themeVars, runVars>>

-----------------------------------------------------------------------------
(* Bounds of the model *)

MaxLines == 4

MaxQuadLen == 5

MaxParts == 3

MaxPageLines == 2

MaxRuns == 2

MaxEntries == 3

-----------------------------------------------------------------------------
(* Option *)

None == <<>>

Some(x) == <<x>>

IsSome(o) == Len(o) = 1

UnwrapOr(o, d) == IF IsSome(o) THEN o[1] ELSE d

OrElse(o, p) == IF IsSome(o) THEN o ELSE p

-----------------------------------------------------------------------------
(* Text primitives (Rust's str methods, on sequences of atoms) *)

Whitespace == {" ", "\t", "\n", "\r"}

StartsWith(s, p) == Len(s) >= Len(p) /\ SubSeq(s, 1, Len(p)) = p

EndsWith(s, p) == Len(s) >= Len(p) /\ SubSeq(s, Len(s) - Len(p) + 1, Len(s)) = p

Contains(s, p) ==
    \E i \in 1..(Len(s) - Len(p) + 1) : SubSeq(s, i, i + Len(p) - 1) = p

RECURSIVE TrimStartChars(_, _)
TrimStartChars(s, cs) ==
    IF s # <<>> /\ Head(s) \in cs THEN TrimStartChars(Tail(s), cs) ELSE s

RECURSIVE TrimEndChars(_, _)
TrimEndChars(s, cs) ==
    IF s # <<>> /\ s[Len(s)] \in cs
    THEN TrimEndChars(SubSeq(s, 1, Len(s) - 1), cs)
    ELSE s

Trim(s) == TrimEndChars(TrimStartChars(s, Whitespace), Whitespace)

RECURSIVE TrimStartMatches(_, _)
TrimStartMatches(s, p) ==
    IF p # <<>> /\ StartsWith(s, p)
    THEN TrimStartMatches(SubSeq(s, Len(p) + 1, Len(s)), p)
    ELSE s

RECURSIVE TrimEndMatches(_, _)
TrimEndMatches(s, p) ==
    IF p # <<>> /\ EndsWith(s, p)
    THEN TrimEndMatches(SubSeq(s, 1, Len(s) - Len(p)), p)
    ELSE s

RECURSIVE RunLength(_, _)
RunLength(s, c) ==
    IF s # <<>> /\ Head(s) = c THEN 1 + RunLength(Tail(s), c) ELSE 0

RECURSIVE Flatten(_)
Flatten(ss) == IF ss = <<>> THEN <<>> ELSE Head(ss) \o Flatten(Tail(ss))

\* str::split_inclusive('\n'): the lines, each keeping its terminator.
RECURSIVE SplitInclusive(_)
SplitInclusive(s) ==
    IF s = <<>> THEN <<>>
    ELSE IF \E i \in 1..Len(s) : s[i] = "\n"
         THEN LET i == CHOOSE k \in 1..Len(s) :
                          s[k] = "\n" /\ \A j \in 1..(k - 1) : s[j] # "\n"
              IN  <<SubSeq(s, 1, i)>> \o SplitInclusive(SubSeq(s, i + 1, Len(s)))
         ELSE <<s>>

\* str::split_whitespace: the maximal runs of non-whitespace atoms.
RECURSIVE SplitWhitespace(_)
SplitWhitespace(s) ==
    LET t == TrimStartChars(s, Whitespace)
    IN  IF t = <<>> THEN <<>>
        ELSE LET n == IF \E i \in 1..Len(t) : t[i] \in Whitespace
                      THEN (CHOOSE k \in 1..Len(t) :
                               t[k] \in Whitespace
                               /\ \A j \in 1..(k - 1) : t[j] \notin Whitespace) - 1
                      ELSE Len(t)
             IN  <<SubSeq(t, 1, n)>> \o SplitWhitespace(SubSeq(t, n + 1, Len(t)))

\* Iterator::take(n) and Iterator::skip(n)
Take(s, n) == SubSeq(s, 1, IF n < Len(s) THEN n ELSE Len(s))

Skip(s, n) == SubSeq(s, n + 1, Len(s))

\* Iterator::filter(|u| !excluded.contains(u))
RECURSIVE FilterExcluded(_, _)
FilterExcluded(s, excluded) ==
    IF s = <<>> THEN <<>>
    ELSE IF Head(s) \in excluded
         THEN FilterExcluded(Tail(s), excluded)
         ELSE <<Head(s)>> \o FilterExcluded(Tail(s), excluded)

-----------------------------------------------------------------------------
(* renderer.rs: the roster block *)

\* The Handlebars template lives in templates/contributor.hbs; its output is
\* modelled as one block that opens and closes with fixed markup and lists
\* the visible handles, then the hidden ones, each on a line of its own.
RECURSIVE HandleLines(_, _)
HandleLines(tag, users) ==
    IF users = <<>> THEN <<>>
    ELSE <<"  ", tag>> \o Head(users) \o <<"\n">> \o HandleLines(tag, Tail(users))

render_contributors_hbs(title, usernames_visible, usernames_hidden) ==
    <<"<div class=\"contributor-footnotes\">", "\n", "  ">> \o title \o <<"\n">>
        \o HandleLines("<visible>", usernames_visible)
        \o HandleLines("<hidden>", usernames_hidden)
        \o <<"</div>", "\n">>

-----------------------------------------------------------------------------
(* processor.rs: the roster (filter, then split at the cap) *)

DefaultTitle == <<"Contributors">>

Roster_cap_before_filter(users_in, excluded, max_visible) ==
    [visible |-> FilterExcluded(Take(users_in, max_visible), excluded),
     hidden  |-> FilterExcluded(Skip(users_in, max_visible), excluded)]

\* visible / hidden of a raw handle list (processor.rs 230-243, 275-289, 376-382)
Roster(users, excluded, max_visible) ==
    LET filtered == FilterExcluded(users, excluded)
    IN  [visible |-> Take(filtered, max_visible),
         hidden  |-> Skip(filtered, max_visible)]

inline_renderer_when_disabled(env, args) ==
    LET r == Roster(args, env.excluded, env.max_visible)
    IN  render_contributors_hbs(env.title, r.visible, r.hidden)

\* The closure passed as inline_renderer.  env.enabled = FALSE is the
\* closure |_args| String::new() of the contributors-disabled arm.
inline_renderer(env, args) ==
    IF ~env.enabled THEN <<>>
    ELSE LET r == Roster(args, env.excluded, env.max_visible)
         IN  render_contributors_hbs(env.title, r.visible, r.hidden)

-----------------------------------------------------------------------------
(* processor.rs: replace_contributors_tokens *)

\* The two fence characters; the backtick is written as a named atom.
Backtick == "BACKTICK"

Tilde == "~"

TokOpen == <<"{", "%">>

TokClose == <<"%", "}">>

Keyword == <<"contributors">>

\* Lines 43-56: the run of backticks or tildes that opens the trimmed line
\* (0 when the line does not start with one).
FenceCount(line) ==
    LET trimmed == TrimStartChars(line, {" ", "\t"})
    IN  IF trimmed # <<>> /\ Head(trimmed) \in {Backtick, Tilde}
        THEN RunLength(trimmed, Head(trimmed))
        ELSE 0

FenceFirst(line) ==
    LET trimmed == TrimStartChars(line, {" ", "\t"})
    IN  IF trimmed # <<>> THEN Head(trimmed) ELSE ""

ClosesFence_strictly_longer(st, first, count) ==
    first = st.fence_ch /\ count > st.fence_len

ClosesFence_any_char(st, first, count) == count >= st.fence_len

\* Line 63: a fence line closes the open fence
ClosesFence(st, first, count) == first = st.fence_ch /\ count >= st.fence_len

IsIndentedCode_tab_only(line) == StartsWith(line, <<"\t">>)

\* Line 81
IsIndentedCode(line) ==
    StartsWith(line, <<"\t">>) \/ StartsWith(line, <<" ", " ", " ", " ">>)

\* Lines 88-91
TokenInner(line) ==
    Trim(TrimEndMatches(TrimStartMatches(Trim(line), TokOpen), TokClose))

IsTokenLine(line) ==
    LET t == Trim(line)
    IN  /\ StartsWith(t, TokOpen)
        /\ EndsWith(t, TokClose)
        /\ StartsWith(TokenInner(line), Keyword)

\* Lines 92-97
TokenArgs(line) == Tail(SplitWhitespace(TokenInner(line)))

TokenHtml_args_in_every_mode(line, src, html_g, env) ==
    IF TokenArgs(line) # <<>> THEN inline_renderer(env, TokenArgs(line))
    ELSE IF src = "Inline" THEN <<>> ELSE html_g

\* Lines 99-114
TokenHtml(line, src, html_g, env) ==
    IF src = "Inline"
    THEN IF TokenArgs(line) = <<>> THEN <<>> ELSE inline_renderer(env, TokenArgs(line))
    ELSE html_g

\* One iteration of the loop over the lines (41-126).  st is the state of the loop:
\* [in_fence, fence_ch, fence_len, out]; the result adds the arm taken.
ScanLine(st, line, src, html_g, env) ==
    LET first == FenceFirst(line)
        count == FenceCount(line)
    IN  IF count >= 3 /\ ~st.in_fence
        THEN [in_fence |-> TRUE, fence_ch |-> first, fence_len |-> count,
              out |-> st.out \o line, arm |-> "open"]
        ELSE IF count >= 3 /\ ClosesFence(st, first, count)
        THEN [in_fence |-> FALSE, fence_ch |-> "", fence_len |-> 0,
              out |-> st.out \o line, arm |-> "close"]
        ELSE IF st.in_fence
        THEN [st EXCEPT !.out = st.out \o line, !.arm = "in_fence"]
        ELSE IF IsIndentedCode(line)
        THEN [st EXCEPT !.out = st.out \o line, !.arm = "indented"]
        ELSE IF IsTokenLine(line)
        THEN [st EXCEPT !.out = st.out \o <<"\n">>
                                  \o Trim(TokenHtml(line, src, html_g, env))
                                  \o <<"\n", "\n">>,
                        !.arm = "token"]
        ELSE [st EXCEPT !.out = st.out \o line, !.arm = "default"]

ScanStart ==
    [in_fence |-> FALSE, fence_ch |-> "", fence_len |-> 0, out |-> <<>>,
     arm |-> "start"]

RECURSIVE ScanAll(_, _, _, _, _)
ScanAll(st, lines, src, html_g, env) ==
    IF lines = <<>> THEN st
    ELSE ScanAll(ScanLine(st, Head(lines), src, html_g, env), Tail(lines),
                 src, html_g, env)

replace_contributors_tokens(text, src, html_g, env) ==
    ScanAll(ScanStart, SplitInclusive(text), src, html_g, env).out

-----------------------------------------------------------------------------
(* renderer.rs: render_template, style_block, wrap_block *)

\* str::replace: every non-overlapping match of pat, left to right.
RECURSIVE Replace(_, _, _)
Replace(s, pat, val) ==
    IF Len(s) < Len(pat) THEN s
    ELSE IF StartsWith(s, pat)
    THEN val \o Replace(SubSeq(s, Len(pat) + 1, Len(s)), pat, val)
    ELSE <<Head(s)>> \o Replace(Tail(s), pat, val)

Ph(name) == <<"{", "{", name, "}", "}">>

render_template_no_branch(template, hash, long_hash, tag, date, sep, branch) ==
    Replace(Replace(Replace(Replace(Replace(template,
        Ph("hash"), hash), Ph("long"), long_hash), Ph("tag"), tag),
        Ph("date"), date), Ph("sep"), sep)

render_template(template, hash, long_hash, tag, date, sep, branch) ==
    Replace(Replace(Replace(Replace(Replace(Replace(template,
        Ph("hash"), hash), Ph("long"), long_hash), Ph("tag"), tag),
        Ph("date"), date), Ph("sep"), sep), Ph("branch"), branch)

style_block(font_size, align, margin) ==
    <<"font-size:">> \o font_size \o <<";padding:4px;margin:">>
        \o margin[1] \o <<" ">> \o margin[2] \o <<" ">> \o margin[3]
        \o <<" ">> \o margin[4]
        \o <<";text-align:">> \o align \o <<";display:block;">>

wrap_block(is_header, style, html) ==
    IF is_header
    THEN <<"<header class=\"gitinfo-header\" style=\"">> \o style \o <<"\">">>
            \o html \o <<"</header>">>
    ELSE <<"<footer class=\"gitinfo-footer\" style=\"">> \o style \o <<"\">">>
            \o html \o <<"</footer>">>

-----------------------------------------------------------------------------
(* git.rs: get_git_output, latest_tag_for_branch *)

\* Result<String, Error>
Ok(x) == <<x>>

Err == <<>>

IsOk(r) == Len(r) = 1

\* str::lines: the lines without their terminators.
RECURSIVE StripTerminators(_)
StripTerminators(ls) ==
    IF ls = <<>> THEN <<>>
    ELSE LET l == Head(ls)
             body == IF EndsWith(l, <<"\r", "\n">>) THEN SubSeq(l, 1, Len(l) - 2)
                     ELSE IF EndsWith(l, <<"\n">>) THEN SubSeq(l, 1, Len(l) - 1)
                     ELSE l
         IN  <<body>> \o StripTerminators(Tail(ls))

Lines(s) == StripTerminators(SplitInclusive(s))

\* A git child process that ran: its exit status and what it wrote.
Exited(success, stdout) == [success |-> success, stdout |-> stdout]

get_git_output(proc) == IF proc.success THEN Ok(Trim(proc.stdout)) ELSE Err

NoTagsFound == <<"No tags found">>

\* Iterator::find(|l| !l.trim().is_empty())
RECURSIVE FindNonEmpty(_)
FindNonEmpty(ls) ==
    IF ls = <<>> THEN None
    ELSE IF Trim(Head(ls)) # <<>> THEN Some(Head(ls))
    ELSE FindNonEmpty(Tail(ls))

latest_tag_for_branch_list_first(describe, tag_list) ==
    LET l == get_git_output(tag_list)
        first == IF IsOk(l) THEN FindNonEmpty(Lines(l[1])) ELSE None
        t == get_git_output(describe)
    IN  IF IsSome(first) THEN Trim(first[1])
        ELSE IF IsOk(t) /\ Trim(t[1]) # <<>> THEN t[1]
        ELSE NoTagsFound

latest_tag_for_branch(describe, tag_list) ==
    LET t == get_git_output(describe)
        l == get_git_output(tag_list)
        first == IF IsOk(l) THEN FindNonEmpty(Lines(l[1])) ELSE None
    IN  IF IsOk(t) /\ Trim(t[1]) # <<>> THEN t[1]
        ELSE IF IsSome(first) THEN Trim(first[1])
        ELSE NoTagsFound

-----------------------------------------------------------------------------
(* git.rs: contributor handles from the shortlog *)

\* ASCII order of the characters a plausible handle is made of.
AsciiOrder ==
    << "-",
       "0", "1", "2", "3", "4", "5", "6", "7", "8", "9",
       "A", "B", "C", "D", "E", "F", "G", "H", "I", "J", "K", "L", "M",
       "N", "O", "P", "Q", "R", "S", "T", "U", "V", "W", "X", "Y", "Z",
       "a", "b", "c", "d", "e", "f", "g", "h", "i", "j", "k", "l", "m",
       "n", "o", "p", "q", "r", "s", "t", "u", "v", "w", "x", "y", "z" >>

\* char::is_ascii_alphanumeric
AsciiAlphanumeric == {AsciiOrder[i] : i \in 2..Len(AsciiOrder)}

MaxUsernameLen == 39

is_plausible_github_username_trailing_hyphen(u) ==
    /\ ~(Len(u) = 0 \/ Len(u) > MaxUsernameLen)
    /\ ~(u[1] = "-")
    /\ \A i \in 1..Len(u) : u[i] \in AsciiAlphanumeric \/ u[i] = "-"

is_plausible_github_username(u) ==
    /\ ~(Len(u) = 0 \/ Len(u) > MaxUsernameLen)
    /\ ~(u[1] = "-" \/ u[Len(u)] = "-")
    /\ \A i \in 1..Len(u) : u[i] \in AsciiAlphanumeric \/ u[i] = "-"

\* str::split_once(c) and str::rsplit_once(c): None, or Some(<<before, after>>)
SplitOnce(s, c) ==
    LET at == {k \in 1..Len(s) : s[k] = c}
        k == CHOOSE a \in at : \A b \in at : a <= b
    IN  IF at = {} THEN None
        ELSE Some(<<SubSeq(s, 1, k - 1), SubSeq(s, k + 1, Len(s))>>)

RSplitOnce(s, c) ==
    LET at == {k \in 1..Len(s) : s[k] = c}
        k == CHOOSE a \in at : \A b \in at : a >= b
    IN  IF at = {} THEN None
        ELSE Some(<<SubSeq(s, 1, k - 1), SubSeq(s, k + 1, Len(s))>>)

NoReplySuffix == <<"@users.noreply.github.com">>

github_username_from_email_no_plus(email) ==
    IF ~EndsWith(email, NoReplySuffix) THEN None
    ELSE LET local == Trim(SubSeq(email, 1, Len(email) - Len(NoReplySuffix)))
         IN  IF local = <<>> THEN None ELSE Some(local)

github_username_from_email(email) ==
    IF ~EndsWith(email, NoReplySuffix) THEN None
    ELSE LET local == Trim(SubSeq(email, 1, Len(email) - Len(NoReplySuffix)))
             sp == SplitOnce(local, "+")
             username == IF IsSome(sp) /\ Trim(sp[1][2]) # <<>>
                         THEN Trim(sp[1][2])
                         ELSE local
         IN  IF local = <<>> THEN None
             ELSE IF username = <<>> THEN None
             ELSE Some(username)

\* String's Ord on handles: byte-wise lexicographic.
Rank(c) == CHOOSE i \in 1..Len(AsciiOrder) : AsciiOrder[i] = c

RECURSIVE LexLess(_, _)
LexLess(a, b) ==
    IF b = <<>> THEN FALSE
    ELSE IF a = <<>> THEN TRUE
    ELSE IF Head(a) # Head(b) THEN Rank(Head(a)) < Rank(Head(b))
    ELSE LexLess(Tail(a), Tail(b))

\* BTreeSet::into_iter().collect(): the elements in ascending order.
RECURSIVE Ascending(_)
Ascending(set) ==
    IF set = {} THEN <<>>
    ELSE LET least == CHOOSE x \in set : \A y \in set \ {x} : LexLess(x, y)
         IN  <<least>> \o Ascending(set \ {least})

\* Lines 194-228: what one line of the shortlog contributes.
ShortlogLine(raw_line) ==
    LET line == Trim(raw_line)
        ws == {k \in 1..Len(line) : line[k] \in Whitespace}
        rest == IF ws = {} THEN <<>>
                ELSE Trim(SubSeq(line, (CHOOSE a \in ws : \A b \in ws : a <= b) + 1,
                                 Len(line)))
        sp == RSplitOnce(rest, "<")
        name == IF IsSome(sp) THEN Trim(sp[1][1]) ELSE rest
        email == IF IsSome(sp) THEN Some(Trim(TrimEndMatches(sp[1][2], <<">">>)))
                 ELSE None
        derived == IF IsSome(email) THEN github_username_from_email(email[1]) ELSE None
    IN  IF line = <<>> \/ rest = <<>>
        THEN [name |-> <<>>, email |-> None, handle |-> None, via |-> "skipped"]
        ELSE IF name # <<>> /\ is_plausible_github_username(name)
        THEN [name |-> name, email |-> email, handle |-> Some(name), via |-> "name"]
        ELSE IF IsSome(derived) /\ is_plausible_github_username(derived[1])
        THEN [name |-> name, email |-> email, handle |-> derived, via |-> "email"]
        ELSE [name |-> name, email |-> email, handle |-> None, via |-> "none"]

RECURSIVE ShortlogLines(_)
ShortlogLines(ls) ==
    IF ls = <<>> THEN <<>>
    ELSE <<ShortlogLine(Head(ls))>> \o ShortlogLines(Tail(ls))

\* Result<Vec<String>, Error>
get_contributor_usernames_from_shortlog(shortlog) ==
    LET raw == get_git_output(shortlog)
        entries == ShortlogLines(Lines(raw[1]))
    IN  IF ~IsOk(raw) THEN Err
        ELSE Ok(Ascending({entries[i].handle[1] :
                              i \in {k \in 1..Len(entries) : IsSome(entries[k].handle)}}))

-----------------------------------------------------------------------------
(* processor.rs: parse_contributors_file *)

\* parse_contributors_file: one handle per non-blank line, a leading list
\* marker dropped; an unreadable file gives no handle.
RECURSIVE ParseFileLines(_)
ParseFileLines(ls) ==
    IF ls = <<>> THEN <<>>
    ELSE LET l == Trim(Head(ls))
             dash == IF StartsWith(l, <<"-", " ">>) THEN Some(SubSeq(l, 3, Len(l)))
                     ELSE None
             star == IF StartsWith(l, <<"*", " ">>) THEN Some(SubSeq(l, 3, Len(l)))
                     ELSE None
         IN  IF l = <<>> THEN ParseFileLines(Tail(ls))
             ELSE <<Trim(UnwrapOr(OrElse(dash, star), l))>> \o ParseFileLines(Tail(ls))

parse_contributors_file(file) ==
    IF ~IsSome(file) THEN <<>>
    ELSE ParseFileLines(Lines(file[1]))

-----------------------------------------------------------------------------
(* repo.rs: normalise_repo_base, resolve_repo_base, tag_url *)

\* str::strip_prefix
StripPrefix(s, p) ==
    IF StartsWith(s, p) THEN Some(SubSeq(s, Len(p) + 1, Len(s))) ELSE None

normalise_repo_base(url) ==
    LET u == TrimEndMatches(Trim(url), <<".git">>)
        scp == StripPrefix(u, <<"git", "@", "github.com", ":">>)
        ssh == StripPrefix(u, <<"ssh://", "git", "@", "github.com", "/">>)
    IN  IF IsSome(scp) THEN <<"https://", "github.com", "/">> \o scp[1]
        ELSE IF IsSome(ssh) THEN <<"https://", "github.com", "/">> \o ssh[1]
        ELSE u

resolve_repo_base_gitlab_first(env, remote) ==
    IF IsSome(env.CI_SERVER_URL) /\ IsSome(env.CI_PROJECT_PATH)
    THEN Some(TrimEndMatches(env.CI_SERVER_URL[1], <<"/">>) \o <<"/">>
              \o env.CI_PROJECT_PATH[1])
    ELSE IF IsSome(env.GITHUB_SERVER_URL) /\ IsSome(env.GITHUB_REPOSITORY)
    THEN Some(TrimEndMatches(env.GITHUB_SERVER_URL[1], <<"/">>) \o <<"/">>
              \o env.GITHUB_REPOSITORY[1])
    ELSE IF IsSome(env.BITBUCKET_GIT_HTTP_ORIGIN)
    THEN Some(normalise_repo_base(env.BITBUCKET_GIT_HTTP_ORIGIN[1]))
    ELSE IF IsSome(env.BITBUCKET_REPO_FULL_NAME)
    THEN Some(<<"https://", "bitbucket.org", "/">> \o env.BITBUCKET_REPO_FULL_NAME[1])
    ELSE IF IsOk(get_git_output(remote))
    THEN Some(normalise_repo_base(get_git_output(remote)[1]))
    ELSE None

resolve_repo_base(env, remote) ==
    IF IsSome(env.GITHUB_SERVER_URL) /\ IsSome(env.GITHUB_REPOSITORY)
    THEN Some(TrimEndMatches(env.GITHUB_SERVER_URL[1], <<"/">>) \o <<"/">>
              \o env.GITHUB_REPOSITORY[1])
    ELSE IF IsSome(env.CI_SERVER_URL) /\ IsSome(env.CI_PROJECT_PATH)
    THEN Some(TrimEndMatches(env.CI_SERVER_URL[1], <<"/">>) \o <<"/">>
              \o env.CI_PROJECT_PATH[1])
    ELSE IF IsSome(env.BITBUCKET_GIT_HTTP_ORIGIN)
    THEN Some(normalise_repo_base(env.BITBUCKET_GIT_HTTP_ORIGIN[1]))
    ELSE IF IsSome(env.BITBUCKET_REPO_FULL_NAME)
    THEN Some(<<"https://", "bitbucket.org", "/">> \o env.BITBUCKET_REPO_FULL_NAME[1])
    ELSE IF IsOk(get_git_output(remote))
    THEN Some(normalise_repo_base(get_git_output(remote)[1]))
    ELSE None

tag_url(base, tag) ==
    IF Contains(base, <<"github.com">>) THEN base \o <<"/releases/tag/">> \o tag
    ELSE IF Contains(base, <<"gitlab">>) THEN base \o <<"/-/tags/">> \o tag
    ELSE IF Contains(base, <<"bitbucket.org">>) THEN base \o <<"/src/">> \o tag
    ELSE base \o <<"/tags/">> \o tag

-----------------------------------------------------------------------------
(* layout.rs: messages, alignment, margins *)

\* A value no configuration text equals: the result of an index out of
\* range or of an unwrap of None (a panic of the program).
Panic == <<"<panic>">>

\* A local of GitInfo::run that is not assigned yet.
Unset == <<"<unset>">>

\* vs[i] of a Vec (0-based)
Index(vs, i) == IF i + 1 \in 1..Len(vs) THEN vs[i + 1] ELSE Panic

\* Option<record>.and_then(|m| m.field.clone())
AndThenHeader(m) == IF IsSome(m) THEN m[1].header ELSE None

AndThenFooter(m) == IF IsSome(m) THEN m[1].footer ELSE None

AndThenBoth(m) == IF IsSome(m) THEN m[1].both ELSE None

DefaultMessage ==
    <<"{", "{", "date", "}", "}", "{", "{", "sep", "}", "}", "commit: ",
      "{", "{", "hash", "}", "}">>

resolve_messages_template_first(c) ==
    LET both == AndThenBoth(c.message)
    IN  <<UnwrapOr(OrElse(OrElse(AndThenHeader(c.message), c.template), both),
                   DefaultMessage),
          UnwrapOr(OrElse(OrElse(AndThenFooter(c.message), c.template), both),
                   DefaultMessage)>>

resolve_messages(c) ==
    LET both == AndThenBoth(c.message)
    IN  <<UnwrapOr(OrElse(OrElse(AndThenHeader(c.message), both), c.template),
                   DefaultMessage),
          UnwrapOr(OrElse(OrElse(AndThenFooter(c.message), both), c.template),
                   DefaultMessage)>>

DefaultAlign == <<"center">>

resolve_align(a) ==
    IF ~IsSome(a) THEN <<DefaultAlign, DefaultAlign>>
    ELSE IF a[1].kind = "One" THEN <<a[1].v, a[1].v>>
    ELSE LET both_v == UnwrapOr(a[1].both, DefaultAlign)
         IN  <<UnwrapOr(a[1].header, both_v), UnwrapOr(a[1].footer, both_v)>>

margin_from_setting_no_len3(ms, fallback) ==
    IF ms.kind = "One" THEN <<ms.v, ms.v, ms.v, ms.v>>
    ELSE IF ms.kind = "Quad"
    THEN IF Len(ms.vs) = 0 THEN fallback
         ELSE IF Len(ms.vs) = 1
         THEN <<Index(ms.vs, 0), Index(ms.vs, 0), Index(ms.vs, 0), Index(ms.vs, 0)>>
         ELSE IF Len(ms.vs) = 2
         THEN <<Index(ms.vs, 0), Index(ms.vs, 1), Index(ms.vs, 0), Index(ms.vs, 1)>>
         ELSE <<Index(ms.vs, 0), Index(ms.vs, 1), Index(ms.vs, 2), Index(ms.vs, 3)>>
    ELSE <<UnwrapOr(ms.top, fallback[1]), UnwrapOr(ms.right, fallback[2]),
           UnwrapOr(ms.bottom, fallback[3]), UnwrapOr(ms.left, fallback[4])>>

margin_from_setting_sides_zero(ms, fallback) ==
    IF ms.kind = "Sides"
    THEN <<UnwrapOr(ms.top, <<"0">>), UnwrapOr(ms.right, <<"0">>),
           UnwrapOr(ms.bottom, <<"0">>), UnwrapOr(ms.left, <<"0">>)>>
    ELSE margin_from_setting_no_len3(ms, fallback)

margin_from_setting(ms, fallback) ==
    IF ms.kind = "One" THEN <<ms.v, ms.v, ms.v, ms.v>>
    ELSE IF ms.kind = "Quad"
    THEN IF Len(ms.vs) = 0 THEN fallback
         ELSE IF Len(ms.vs) = 1
         THEN <<Index(ms.vs, 0), Index(ms.vs, 0), Index(ms.vs, 0), Index(ms.vs, 0)>>
         ELSE IF Len(ms.vs) = 2
         THEN <<Index(ms.vs, 0), Index(ms.vs, 1), Index(ms.vs, 0), Index(ms.vs, 1)>>
         ELSE IF Len(ms.vs) = 3
         THEN <<Index(ms.vs, 0), Index(ms.vs, 1), Index(ms.vs, 2), Index(ms.vs, 1)>>
         ELSE <<Index(ms.vs, 0), Index(ms.vs, 1), Index(ms.vs, 2), Index(ms.vs, 3)>>
    ELSE <<UnwrapOr(ms.top, fallback[1]), UnwrapOr(ms.right, fallback[2]),
           UnwrapOr(ms.bottom, fallback[3]), UnwrapOr(ms.left, fallback[4])>>

Zeros == <<<<"0">>, <<"0">>, <<"0">>, <<"0">>>>

DefaultMargin == <<<<"0">>, <<"0">>, <<"2em">>, <<"0">>>>

resolve_margins(m) ==
    LET both == AndThenBoth(m)
        base == IF IsSome(both) THEN margin_from_setting(both[1], Zeros) ELSE Zeros
        h    == AndThenHeader(m)
        f    == AndThenFooter(m)
    IN  <<IF IsSome(h) THEN margin_from_setting(h[1], base) ELSE DefaultMargin,
          IF IsSome(f) THEN margin_from_setting(f[1], base) ELSE DefaultMargin>>

-----------------------------------------------------------------------------
(* The configurations the resolver is run on *)

Opt(S) == {None} \cup {Some(x) : x \in S}

MessageConfigs ==
    [header : Opt({<<"H">>}), footer : Opt({<<"F">>}), both : Opt({<<"B">>})]

AlignSettings ==
    {[kind |-> "One", v |-> <<"left">>]}
        \cup {[kind |-> "Split", header |-> h, footer |-> f, both |-> b] :
                h \in Opt({<<"left">>}), f \in Opt({<<"right">>}),
                b \in Opt({<<"justify">>})}

Digits == <<"1", "2", "3", "4", "5", "6", "7", "8", "9">>

\* The margin settings whose values are tagged p: a scalar, the lists of
\* length 0..MaxQuadLen and the per-side records.
MarginSettings(p) ==
    {[kind |-> "One", v |-> <<p, "em">>]}
        \cup {[kind |-> "Quad", vs |-> [i \in 1..n |-> <<p, Digits[i]>>]] :
                n \in 0..MaxQuadLen}
        \cup {[kind |-> "Sides", top |-> t, right |-> r, bottom |-> b, left |-> l] :
                t \in Opt({<<p, "top">>}), r \in Opt({<<p, "right">>}),
                b \in Opt({<<p, "bottom">>}), l \in Opt({<<p, "left">>})}

MarginConfigs ==
    [header : Opt(MarginSettings("h")), footer : Opt(MarginSettings("f")),
     both : Opt(MarginSettings("b"))]

NoConfig == [message |-> None, template |-> None, align |-> None, margin |-> None]

\* The three resolvers read disjoint fields, so each is varied on its own.
LayoutConfigs ==
    {[NoConfig EXCEPT !.message = m, !.template = t] :
        m \in Opt(MessageConfigs), t \in Opt({<<"T">>})}
    \cup {[NoConfig EXCEPT !.align = a] : a \in Opt(AlignSettings)}
    \cup {[NoConfig EXCEPT !.margin = m] : m \in Opt(MarginConfigs)}

-----------------------------------------------------------------------------
(* GitInfo::run, lines 194-197: the layout is resolved *)

\* The scanner, not running.
PlainFacts ==
    [hash |-> <<"ab12cd3">>, long_hash |-> <<"ab12cd3", "e4f5">>, tag |-> <<"v1.2.3">>,
     date |-> <<"2026-01-14", " ", "10:00:00">>, sep |-> <<" ", "|", " ">>,
     branch |-> <<"main">>]

IdleRender ==
    /\ tmpl = <<>>
    /\ vals = PlainFacts
    /\ rendered = Unset

IdlePage ==
    /\ content = <<>>
    /\ runs = 0
    /\ first_pass = Unset
    /\ show_header = FALSE
    /\ show_footer = FALSE

NoEnv ==
    [GITHUB_SERVER_URL |-> None, GITHUB_REPOSITORY |-> None,
     CI_SERVER_URL |-> None, CI_PROJECT_PATH |-> None,
     BITBUCKET_GIT_HTTP_ORIGIN |-> None, BITBUCKET_REPO_FULL_NAME |-> None]

IdleFacts ==
    /\ hyperlink = FALSE
    /\ cfg_tag = None
    /\ repo_env = NoEnv
    /\ git_remote = Exited(FALSE, <<>>)
    /\ git_describe = Exited(FALSE, <<>>)
    /\ git_tags = Exited(FALSE, <<>>)
    /\ repo_base = Unset
    /\ resolved_tag = Unset
    /\ hash_disp = Unset
    /\ branch_disp = Unset
    /\ tag_disp = Unset
    /\ facts_pc = "idle"

IdleRoster ==
    /\ git_shortlog = Exited(FALSE, <<>>)
    /\ contributors_file = None
    /\ inline_args = <<>>
    /\ roster_users = <<>>
    /\ roster_visible = <<>>
    /\ roster_hidden = <<>>
    /\ derivation = <<>>
    /\ roster_pc = "idle"

IdleScan ==
    /\ input = <<>>
    /\ idx = 0
    /\ out = <<>>
    /\ in_fence = FALSE
    /\ fence_ch = ""
    /\ fence_len = 0
    /\ hist = <<>>
    /\ source = "Git"
    /\ html_global = <<>>
    /\ renderer = [enabled |-> FALSE, excluded |-> {}, max_visible |-> 24,
                   title |-> DefaultTitle]

IdleLayout ==
    /\ cfg = NoConfig
    /\ layout_pc = "idle"
    /\ header_tmpl = Unset
    /\ footer_tmpl = Unset
    /\ align_header = Unset
    /\ align_footer = Unset
    /\ margin_header = Unset
    /\ margin_footer = Unset

IdleTime ==
    /\ raw_date = <<>>
    /\ timezone = None
    /\ date_format = <<>>
    /\ time_format = <<>>
    /\ local_offset = 0
    /\ formatted_date = Unset
    /\ time_pc = "idle"

IdleWalk ==
    /\ item = [kind |-> "Separator"]
    /\ walked = Unset
    /\ visited = <<>>
    /\ walk_pc = "idle"

IdleTheme ==
    /\ book_toml = None
    /\ css_file = None
    /\ theme_hist = <<>>
    /\ theme_pc = "idle"

IdleRun ==
    /\ config_table = None
    /\ run_cfg = Unset
    /\ run_branch = Unset
    /\ git_calls = <<>>
    /\ pages = <<>>
    /\ page_facts = <<>>
    /\ run_pc = "idle"

InitLayout ==
    /\ cfg \in LayoutConfigs
    /\ layout_pc = "messages"
    /\ header_tmpl = Unset
    /\ footer_tmpl = Unset
    /\ align_header = Unset
    /\ align_footer = Unset
    /\ margin_header = Unset
    /\ margin_footer = Unset
    /\ IdleScan
    /\ IdleRender
    /\ IdlePage
    /\ IdleFacts
    /\ IdleRoster
    /\ IdleTime
    /\ IdleWalk
    /\ IdleTheme
    /\ IdleRun

ResolveMessages ==
    /\ layout_pc = "messages"
    /\ header_tmpl' = resolve_messages(cfg)[1]
    /\ footer_tmpl' = resolve_messages(cfg)[2]
    /\ layout_pc' = "align"
    /\ UNCHANGED <<cfg, align_header, align_footer, margin_header, margin_footer,
                   scanVars, renderVars, pageVars, factsVars, rosterVars>>
    /\ UNCHANGED <<timeVars, walkVars, themeVars, runVars>>

ResolveAlign ==
    /\ layout_pc = "align"
    /\ align_header' = resolve_align(cfg.align)[1]
    /\ align_footer' = resolve_align(cfg.align)[2]
    /\ layout_pc' = "margins"
    /\ UNCHANGED <<cfg, header_tmpl, footer_tmpl, margin_header, margin_footer,
                   scanVars, renderVars, pageVars, factsVars, rosterVars>>
    /\ UNCHANGED <<timeVars, walkVars, themeVars, runVars>>

ResolveMargins ==
    /\ layout_pc = "margins"
    /\ margin_header' = resolve_margins(cfg.margin)[1]
    /\ margin_footer' = resolve_margins(cfg.margin)[2]
    /\ layout_pc' = "resolved"
    /\ UNCHANGED <<cfg, header_tmpl, footer_tmpl, align_header, align_footer,
                   scanVars, renderVars, pageVars, factsVars, rosterVars>>
    /\ UNCHANGED <<timeVars, walkVars, themeVars, runVars>>

NextLayout ==
    \/ ResolveMessages
    \/ ResolveAlign
    \/ ResolveMargins

SpecLayout == InitLayout /\ [][NextLayout]_vars

-----------------------------------------------------------------------------
(* render_template as a step *)

Recognized == {"hash", "long", "tag", "date", "sep", "branch"}

Pieces ==
    {Ph(n) : n \in Recognized} \cup {Ph("unknown"), <<"x">>, <<"{", "{">>, <<"}", "}">>}

\* The templates: up to MaxParts pieces, concatenated.
Templates ==
    UNION {{Flatten(f) : f \in [1..n -> Pieces]} : n \in 0..MaxParts}

\* The values substituted: plain ones, an empty hash (a failed lookup), and
\* values that hold placeholder text themselves.
ValueSets ==
    { PlainFacts,
      [PlainFacts EXCEPT !.hash = <<>>],
      [PlainFacts EXCEPT !.sep = <<"hash">>],
      [PlainFacts EXCEPT !.sep = Ph("hash")],
      [PlainFacts EXCEPT !.hash = Ph("branch")],
      [PlainFacts EXCEPT !.tag = Ph("date")] }

InitRender ==
    /\ tmpl \in Templates
    /\ vals \in ValueSets
    /\ rendered = Unset
    /\ IdleScan
    /\ IdleLayout
    /\ IdlePage
    /\ IdleFacts
    /\ IdleRoster
    /\ IdleTime
    /\ IdleWalk
    /\ IdleTheme
    /\ IdleRun

Render ==
    /\ rendered = Unset
    /\ rendered' = render_template(tmpl, vals.hash, vals.long_hash, vals.tag,
                                   vals.date, vals.sep, vals.branch)
    /\ UNCHANGED <<tmpl, vals, scanVars, layoutVars, pageVars, factsVars, rosterVars>>
    /\ UNCHANGED <<timeVars, walkVars, themeVars, runVars>>

NextRender == Render

SpecRender == InitRender /\ [][NextRender]_vars

-----------------------------------------------------------------------------
(* The lines fed to the scanner *)

Token == <<"{", "%", " ", "contributors", " ", "%", "}">>

TokenWithArgs ==
    <<"{", "%", " ", "contributors", " ", "a", " ", "b", " ", "c", " ", "%", "}">>

OtherTag == <<"{", "%", " ", "include", " ", "%", "}">>

Fence(ch, n) == [i \in 1..n |-> ch]

LineKinds ==
    { Token \o <<"\n">>,
      TokenWithArgs \o <<"\n">>,
      <<" ", " ", " ", " ">> \o Token \o <<"\n">>,     \* indented code
      <<"\t">> \o Token \o <<"\n">>,                   \* indented code
      Fence(Backtick, 3) \o <<"\n">>,
      Fence(Backtick, 4) \o <<"\n">>,
      Fence(Tilde, 3) \o <<"\n">>,
      <<Backtick>> \o Token \o <<Backtick, "\n">>,     \* inline code span
      OtherTag \o <<"\n">>,                            \* another keyword
      Token \o <<" ", "x", " ">> \o OtherTag \o <<"\n">> }

Users == <<<<"a">>, <<"b">>, <<"c">>>>

\* What GitInfo::run hands to replace_contributors_tokens (processor.rs
\* 372-407): the source, the precomputed global block and the closure.
ScanEnv(enabled, src, excluded, max_visible) ==
    [source |-> src,
     html_global |->
        IF enabled /\ src # "Inline"
        THEN LET r == Roster(Users, excluded, max_visible)
             IN  render_contributors_hbs(DefaultTitle, r.visible, r.hidden)
        ELSE <<>>,
     renderer |-> [enabled |-> enabled, excluded |-> excluded,
                   max_visible |-> max_visible, title |-> DefaultTitle]]

ScanEnvs ==
    { ScanEnv(TRUE, "Git", {<<"b">>}, 1),
      ScanEnv(TRUE, "File", {}, 24),
      ScanEnv(TRUE, "Inline", {<<"b">>}, 1),
      ScanEnv(FALSE, "Git", {}, 24),
      ScanEnv(FALSE, "Inline", {}, 24) }

-----------------------------------------------------------------------------
(* The scanner as a state machine: one step per input line *)

InitScan ==
    /\ input = <<>>
    /\ idx = 0
    /\ out = <<>>
    /\ in_fence = FALSE
    /\ fence_ch = ""
    /\ fence_len = 0
    /\ hist = <<>>
    /\ \E e \in ScanEnvs :
          /\ source = e.source
          /\ html_global = e.html_global
          /\ renderer = e.renderer
    /\ IdleLayout
    /\ IdleRender
    /\ IdlePage
    /\ IdleFacts
    /\ IdleRoster
    /\ IdleTime
    /\ IdleWalk
    /\ IdleTheme
    /\ IdleRun

FenceState == [in_fence |-> in_fence, fence_ch |-> fence_ch, fence_len |-> fence_len]

LoopState ==
    [in_fence |-> in_fence, fence_ch |-> fence_ch, fence_len |-> fence_len,
     out |-> out, arm |-> "start"]

\* The loop body on the next line.
Step(line) == ScanLine(LoopState, line, source, html_global, renderer)

\* The assignments of one iteration that ends in state st.
Advance(line, st) ==
    /\ input' = Append(input, line)
    /\ idx' = idx + 1
    /\ out' = st.out
    /\ in_fence' = st.in_fence
    /\ fence_ch' = st.fence_ch
    /\ fence_len' = st.fence_len
    /\ hist' = Append(hist,
           [before |-> FenceState,
            after  |-> [in_fence |-> st.in_fence, fence_ch |-> st.fence_ch,
                        fence_len |-> st.fence_len],
            arm    |-> st.arm,
            chunk  |-> SubSeq(st.out, Len(out) + 1, Len(st.out))])
    /\ UNCHANGED <<scanEnvVars, layoutVars, renderVars, pageVars, factsVars, rosterVars>>
    /\ UNCHANGED <<timeVars, walkVars, themeVars, runVars>>

\* One action per arm of the loop body.
FenceOpen ==
    /\ idx < MaxLines
    /\ \E line \in LineKinds :
          /\ Step(line).arm = "open"
          /\ Advance(line, Step(line))

FenceClose ==
    /\ idx < MaxLines
    /\ \E line \in LineKinds :
          /\ Step(line).arm = "close"
          /\ Advance(line, Step(line))

InFenceLine ==
    /\ idx < MaxLines
    /\ \E line \in LineKinds :
          /\ Step(line).arm = "in_fence"
          /\ Advance(line, Step(line))

IndentedLine ==
    /\ idx < MaxLines
    /\ \E line \in LineKinds :
          /\ Step(line).arm = "indented"
          /\ Advance(line, Step(line))

TokenLine ==
    /\ idx < MaxLines
    /\ \E line \in LineKinds :
          /\ Step(line).arm = "token"
          /\ Advance(line, Step(line))

PlainLine ==
    /\ idx < MaxLines
    /\ \E line \in LineKinds :
          /\ Step(line).arm = "default"
          /\ Advance(line, Step(line))

NextScan ==
    \/ FenceOpen
    \/ FenceClose
    \/ InFenceLine
    \/ IndentedLine
    \/ TokenLine
    \/ PlainLine

SpecScan == InitScan /\ [][NextScan]_vars

-----------------------------------------------------------------------------
(* GitInfo::run, lines 372-440: one chapter is decorated *)

DefaultFontSize == <<"0.8em">>

\* Lines 421-428
InsertHeader(c, html) ==
    LET insertion == html \o <<"\n", "\n">>
    IN  IF ~StartsWith(c, insertion) THEN insertion \o c ELSE c

\* Lines 430-440
InsertFooter(c, html) ==
    LET needs_leading_blank == ~EndsWith(c, <<"\n", "\n">>)
        prefix == IF needs_leading_blank THEN <<"\n", "\n">> ELSE <<"\n">>
    IN  IF ~Contains(c, html) THEN c \o prefix \o html \o <<"\n">> ELSE c

\* The closure body on a chapter that has a path, git facts v fixed.
DecorateChapter(c, v) ==
    LET stripped ==
            IF renderer.enabled
            THEN replace_contributors_tokens(c, source, html_global, renderer)
            ELSE replace_contributors_tokens(c, source, <<>>, renderer)
        render(t) == render_template(t, v.hash, v.long_hash, v.tag, v.date,
                                     v.sep, v.branch)
        header_html == wrap_block(TRUE,
                           style_block(DefaultFontSize, align_header, margin_header),
                           render(header_tmpl))
        footer_html == wrap_block(FALSE,
                           style_block(DefaultFontSize, align_footer, margin_footer),
                           render(footer_tmpl))
        with_header == IF show_header THEN InsertHeader(stripped, header_html)
                       ELSE stripped
    IN  IF show_footer THEN InsertFooter(with_header, footer_html) ELSE with_header

\* The chapters: up to MaxPageLines lines.
PageLineKinds ==
    { <<"x", "\n">>, <<"\n">>, <<"x">>,
      <<"{", "%", " ", "contributors", " ", "%", "}", "\n">>,
      <<Backtick, Backtick, Backtick, "\n">> }

PageContents ==
    UNION {{Flatten(f) : f \in [1..n -> PageLineKinds]} : n \in 0..MaxPageLines}

\* message.header / message.footer as configured: the default one-line
\* message, or a multi-line message one of whose lines is a roster token.
PageMessages ==
    { DefaultMessage,
      <<"{", "{", "date", "}", "}", "\n",
        "{", "%", " ", "contributors", " ", "%", "}", "\n",
        "{", "{", "hash", "}", "}">> }

\* The header or footer block of a chapter with the facts v (lines 421-424,
\* 431-432).
BlockHtml(is_header, v) ==
    wrap_block(is_header,
               style_block(DefaultFontSize,
                           IF is_header THEN align_header ELSE align_footer,
                           IF is_header THEN margin_header ELSE margin_footer),
               render_template(IF is_header THEN header_tmpl ELSE footer_tmpl,
                               v.hash, v.long_hash, v.tag, v.date, v.sep, v.branch))

\* Chapters whose body shows a block of their own between other text.
QuotingPages ==
    { <<"x", "\n">> \o BlockHtml(FALSE, vals) \o <<"\n", "x", "\n">>,
      <<"x", "\n">> \o BlockHtml(TRUE, vals) \o <<"\n", "\n", "x", "\n">> }

InitPage ==
    /\ runs = 0
    /\ first_pass = Unset
    /\ show_header \in BOOLEAN
    /\ show_footer \in BOOLEAN
    /\ \E h \in PageMessages, f \in PageMessages :
          /\ cfg = [NoConfig EXCEPT !.message =
                        Some([header |-> Some(h), footer |-> Some(f), both |-> None])]
          /\ header_tmpl = resolve_messages(cfg)[1]
          /\ footer_tmpl = resolve_messages(cfg)[2]
          /\ align_header = resolve_align(cfg.align)[1]
          /\ align_footer = resolve_align(cfg.align)[2]
          /\ margin_header = resolve_margins(cfg.margin)[1]
          /\ margin_footer = resolve_margins(cfg.margin)[2]
          /\ layout_pc = "resolved"
    /\ \E e \in ScanEnvs :
          /\ source = e.source
          /\ html_global = e.html_global
          /\ renderer = e.renderer
    /\ input = <<>>
    /\ idx = 0
    /\ out = <<>>
    /\ in_fence = FALSE
    /\ fence_ch = ""
    /\ fence_len = 0
    /\ hist = <<>>
    /\ tmpl = <<>>
    /\ vals = PlainFacts
    /\ rendered = Unset
    /\ content \in PageContents \cup QuotingPages
    /\ IdleFacts
    /\ IdleRoster
    /\ IdleTime
    /\ IdleWalk
    /\ IdleTheme
    /\ IdleRun

Decorate ==
    /\ runs < MaxRuns
    /\ content' = DecorateChapter(content, vals)
    /\ runs' = runs + 1
    /\ first_pass' = IF runs = 0 THEN DecorateChapter(content, vals) ELSE first_pass
    /\ UNCHANGED <<show_header, show_footer, scanVars, layoutVars, renderVars,
                   factsVars, rosterVars>>
    /\ UNCHANGED <<timeVars, walkVars, themeVars, runVars>>

NextPage == Decorate

SpecPage == InitPage /\ [][NextPage]_vars

-----------------------------------------------------------------------------
(* GitInfo::run, lines 202-213 and 350-419: the git facts of a chapter *)

Anchor(url, text) == <<"<a href=\"">> \o url \o <<"\">">> \o text \o <<"</a>">>

\* Lines 350-359
hash_branch_disp_without_base(hl, base, short_hash, long_hash, branch) ==
    IF hl
    THEN LET b == UnwrapOr(base, <<>>)
         IN  [hash |-> Anchor(b \o <<"/commit/">> \o long_hash, short_hash),
              branch |-> Anchor(b \o <<"/tree/">> \o branch, branch)]
    ELSE [hash |-> short_hash, branch |-> branch]

hash_branch_disp(hl, base, short_hash, long_hash, branch) ==
    IF hl /\ IsSome(base)
    THEN [hash |-> Anchor(base[1] \o <<"/commit/">> \o long_hash, short_hash),
          branch |-> Anchor(base[1] \o <<"/tree/">> \o branch, branch)]
    ELSE [hash |-> short_hash, branch |-> branch]

\* Lines 361-370
tag_display(hl, base, tag) ==
    IF tag # <<>> /\ ~Contains(tag, NoTagsFound) /\ hl
    THEN IF IsSome(base) THEN Anchor(tag_url(base[1], tag), tag) ELSE tag
    ELSE <<"-">>

\* Lines 208-213
resolve_tag(tag_setting, describe, tag_list) ==
    LET t == IF IsSome(tag_setting) THEN Trim(tag_setting[1]) ELSE <<>>
    IN  IF IsSome(tag_setting) /\ t # <<>> THEN t
        ELSE latest_tag_for_branch(describe, tag_list)

GithubEnv ==
    [NoEnv EXCEPT !.GITHUB_SERVER_URL = Some(<<"https://", "github.com", "/">>),
                  !.GITHUB_REPOSITORY = Some(<<"org", "/", "repo">>)]

GitlabEnv ==
    [NoEnv EXCEPT !.CI_SERVER_URL = Some(<<"https://", "gitlab", ".example">>),
                  !.CI_PROJECT_PATH = Some(<<"grp", "/", "proj">>)]

TagSettings == {None, Some(<<" ">>), Some(<<" ", "v9.0.0", " ">>)}

DescribeOutcomes ==
    { Exited(FALSE, <<>>), Exited(TRUE, <<"\n">>), Exited(TRUE, <<"v1.2.3", "\n">>) }

TagListOutcomes ==
    { Exited(FALSE, <<"v0.0.1", "\n">>),
      Exited(TRUE, <<>>),
      Exited(TRUE, <<" ", "\n">>),
      Exited(TRUE, <<"v2.0.0", "\n", "v1.2.3", "\n">>),
      Exited(TRUE, <<"\n", "v2.0.0", " ", "\n", " ", "\n", "v1.2.3", "\n">>) }

RemoteOutcomes ==
    { Exited(FALSE, <<>>),
      Exited(TRUE, <<"git", "@", "github.com", ":", "org", "/", "repo", ".git", "\n">>) }

\* The footer messages: the default one and one that shows every fact.
FactMessages ==
    { DefaultMessage,
      Ph("tag") \o <<" ">> \o Ph("branch") \o <<" ">> \o Ph("hash") }

InitFacts ==
    /\ hyperlink \in BOOLEAN
    /\ cfg_tag \in TagSettings
    /\ repo_env \in {NoEnv, GithubEnv, GitlabEnv}
    /\ git_remote \in RemoteOutcomes
    /\ git_describe \in DescribeOutcomes
    /\ git_tags \in TagListOutcomes
    /\ repo_base = Unset
    /\ resolved_tag = Unset
    /\ hash_disp = Unset
    /\ branch_disp = Unset
    /\ tag_disp = Unset
    /\ facts_pc = "start"
    /\ tmpl \in FactMessages
    /\ vals = PlainFacts
    /\ rendered = Unset
    /\ IdleScan
    /\ IdleLayout
    /\ IdlePage
    /\ IdleRoster
    /\ IdleTime
    /\ IdleWalk
    /\ IdleTheme
    /\ IdleRun

\* Lines 203-207
ResolveRepoBase ==
    /\ facts_pc = "start"
    /\ repo_base' = IF hyperlink THEN resolve_repo_base(repo_env, git_remote) ELSE None
    /\ facts_pc' = "base"
    /\ UNCHANGED <<hyperlink, cfg_tag, repo_env, git_remote, git_describe, git_tags,
                   resolved_tag, hash_disp, branch_disp, tag_disp,
                   scanVars, layoutVars, renderVars, pageVars, rosterVars>>
    /\ UNCHANGED <<timeVars, walkVars, themeVars, runVars>>

\* Lines 208-213
ResolveTag ==
    /\ facts_pc = "base"
    /\ resolved_tag' = resolve_tag(cfg_tag, git_describe, git_tags)
    /\ facts_pc' = "tag"
    /\ UNCHANGED <<hyperlink, cfg_tag, repo_env, git_remote, git_describe, git_tags,
                   repo_base, hash_disp, branch_disp, tag_disp,
                   scanVars, layoutVars, renderVars, pageVars, rosterVars>>
    /\ UNCHANGED <<timeVars, walkVars, themeVars, runVars>>

\* Lines 350-370
DisplayFacts ==
    /\ facts_pc = "tag"
    /\ LET d == hash_branch_disp(hyperlink, repo_base, vals.hash, vals.long_hash,
                                 vals.branch)
       IN  /\ hash_disp' = d.hash
           /\ branch_disp' = d.branch
    /\ tag_disp' = tag_display(hyperlink, repo_base, resolved_tag)
    /\ facts_pc' = "display"
    /\ UNCHANGED <<hyperlink, cfg_tag, repo_env, git_remote, git_describe, git_tags,
                   repo_base, resolved_tag,
                   scanVars, layoutVars, renderVars, pageVars, rosterVars>>
    /\ UNCHANGED <<timeVars, walkVars, themeVars, runVars>>

\* Lines 409-419: the render closure applied to a message
RenderFacts ==
    /\ facts_pc = "display"
    /\ rendered' = render_template(tmpl, hash_disp, vals.long_hash, tag_disp,
                                   vals.date, vals.sep, branch_disp)
    /\ facts_pc' = "rendered"
    /\ UNCHANGED <<hyperlink, cfg_tag, repo_env, git_remote, git_describe, git_tags,
                   repo_base, resolved_tag, hash_disp, branch_disp, tag_disp,
                   tmpl, vals, scanVars, layoutVars, pageVars, rosterVars>>
    /\ UNCHANGED <<timeVars, walkVars, themeVars, runVars>>

NextFacts ==
    \/ ResolveRepoBase
    \/ ResolveTag
    \/ DisplayFacts
    \/ RenderFacts

SpecFacts == InitFacts /\ [][NextFacts]_vars

-----------------------------------------------------------------------------
(* resolve_repo_base on every environment and remote *)

EnvValue ==
    [GITHUB_SERVER_URL |-> <<"https://", "github.com", "/">>,
     GITHUB_REPOSITORY |-> <<"org", "/", "repo">>,
     CI_SERVER_URL |-> <<"https://", "gitlab", ".example">>,
     CI_PROJECT_PATH |-> <<"grp", "/", "proj">>,
     BITBUCKET_GIT_HTTP_ORIGIN |->
        <<"https://", "bitbucket.org", "/", "team", "/", "bb", ".git">>,
     BITBUCKET_REPO_FULL_NAME |-> <<"team", "/", "full">>]

\* Every subset of the six variables set.
RepoEnvs ==
    { [n \in DOMAIN EnvValue |-> IF n \in set THEN Some(EnvValue[n]) ELSE None] :
        set \in SUBSET (DOMAIN EnvValue) }

RemoteHosts == { <<"github.com">>, <<"gitlab", ".com">> }

RemoteUsers == { "git", "alice" }

RemoteSuffixes == { <<>>, <<".git">>, <<".git", ".git">> }

\* remote.origin.url in its three forms
RemoteUrls ==
    LET path == <<"org", "/", "repo">>
    IN  { <<u, "@">> \o h \o <<":">> \o path \o x :
            u \in RemoteUsers, h \in RemoteHosts, x \in RemoteSuffixes }
        \cup
        { <<"ssh://", u, "@">> \o h \o <<"/">> \o path \o x :
            u \in RemoteUsers, h \in RemoteHosts, x \in RemoteSuffixes }
        \cup
        { <<"https://">> \o h \o <<"/">> \o path \o x :
            h \in RemoteHosts, x \in RemoteSuffixes }

InitRepo ==
    /\ hyperlink = TRUE
    /\ cfg_tag = None
    /\ repo_env \in RepoEnvs
    /\ git_remote \in {Exited(FALSE, <<>>)}
                        \cup {Exited(TRUE, u \o <<"\n">>) : u \in RemoteUrls}
    /\ git_describe = Exited(FALSE, <<>>)
    /\ git_tags = Exited(FALSE, <<>>)
    /\ repo_base = Unset
    /\ resolved_tag = Unset
    /\ hash_disp = Unset
    /\ branch_disp = Unset
    /\ tag_disp = Unset
    /\ facts_pc = "start"
    /\ IdleScan
    /\ IdleLayout
    /\ IdleRender
    /\ IdlePage
    /\ IdleRoster
    /\ IdleTime
    /\ IdleWalk
    /\ IdleTheme
    /\ IdleRun

NextRepo == ResolveRepoBase

SpecRepo == InitRepo /\ [][NextRepo]_vars

-----------------------------------------------------------------------------
(* GitInfo::run, lines 225-316 and 375-391: the contributor roster *)

Repeat(c, n) == [i \in 1..n |-> c]

\* One line of git shortlog -sne: count, name, email.
ShortlogText(name, email) ==
    <<" ", " ", "3", "\t">> \o name \o <<" ", "<">> \o email \o <<">", "\n">>

ShortlogLineKinds ==
    { ShortlogText(<<"b", "o">>, <<"b", "o", "@example.com">>),
      ShortlogText(<<"A", "d", "a">>, <<"a", "@example.com">>),
      ShortlogText(<<"-", "b", "a", "d">>, <<"x", "@example.com">>),
      ShortlogText(<<"b", "a", "d", "-">>,
                   <<"1", "2", "+", "a", "l", "@users.noreply.github.com">>),
      ShortlogText(<<"h", "a", "s", " ", "s", "p", "a", "c", "e">>,
                   <<"a", "l", "@users.noreply.github.com">>),
      ShortlogText(Repeat("a", MaxUsernameLen + 1), <<"e", "@example.com">>),
      ShortlogText(Repeat("a", MaxUsernameLen), <<"e", "@example.com">>),
      ShortlogText(<<"G", "l", " ", "U">>,
                   <<"7", "+", "g", "l", "@users.noreply.gitlab.com">>),
      ShortlogText(<<"Z", "e", "d", " ", "X">>,
                   <<"x", "+", "z", "e", "d", "@users.noreply.github.com">>),
      <<" ", "\n">> }

ShortlogOutcomes ==
    {Exited(FALSE, <<>>)}
        \cup UNION {{Exited(TRUE, Flatten(f)) : f \in [1..n -> ShortlogLineKinds]} :
                      n \in 0..MaxEntries}

FileLineKinds ==
    { <<"a", "l", "\n">>, <<"-", " ", "b", "o", "\n">>, <<"*", " ", "a", "l", "\n">>,
      <<" ", "c", "y", " ", "\n">>, <<"\n">> }

FileOutcomes ==
    {None} \cup UNION {{Some(Flatten(f)) : f \in [1..n -> FileLineKinds]} :
                         n \in 0..MaxEntries}

InlineHandles == { <<"a", "l">>, <<"b", "o">>, <<"c", "y">> }

InlineArgLists == UNION {[1..n -> InlineHandles] : n \in 0..MaxEntries}

ExcludedSets == { {}, {<<"a", "l">>} }

Caps == {0, 1, 24}

InitRoster ==
    /\ \/ /\ source = "Git"
          /\ git_shortlog \in ShortlogOutcomes
          /\ contributors_file = None
          /\ inline_args = <<>>
       \/ /\ source = "File"
          /\ git_shortlog = Exited(FALSE, <<>>)
          /\ contributors_file \in FileOutcomes
          /\ inline_args = <<>>
       \/ /\ source = "Inline"
          /\ git_shortlog = Exited(FALSE, <<>>)
          /\ contributors_file = None
          /\ inline_args \in InlineArgLists
    /\ renderer \in [enabled : {TRUE}, excluded : ExcludedSets, max_visible : Caps,
                     title : {DefaultTitle}]
                        \cup [enabled : {FALSE}, excluded : {{}}, max_visible : {24},
                              title : {DefaultTitle}]
    /\ html_global = Unset
    /\ roster_users = <<>>
    /\ roster_visible = <<>>
    /\ roster_hidden = <<>>
    /\ derivation = <<>>
    /\ roster_pc = "start"
    /\ input = <<>>
    /\ idx = 0
    /\ out = <<>>
    /\ in_fence = FALSE
    /\ fence_ch = ""
    /\ fence_len = 0
    /\ hist = <<>>
    /\ IdleLayout
    /\ IdleRender
    /\ IdlePage
    /\ IdleFacts
    /\ IdleTime
    /\ IdleWalk
    /\ IdleTheme
    /\ IdleRun

\* Lines 227-263
RosterFromGit ==
    /\ roster_pc = "start"
    /\ renderer.enabled
    /\ source = "Git"
    /\ LET got == get_contributor_usernames_from_shortlog(git_shortlog)
           r == Roster(got[1], renderer.excluded, renderer.max_visible)
       IN  IF IsOk(got)
           THEN /\ roster_users' = got[1]
                /\ roster_visible' = r.visible
                /\ roster_hidden' = r.hidden
                /\ html_global' = render_contributors_hbs(renderer.title, r.visible,
                                                          r.hidden)
                /\ derivation' = ShortlogLines(Lines(get_git_output(git_shortlog)[1]))
           ELSE /\ html_global' = <<>>
                /\ UNCHANGED <<roster_users, roster_visible, roster_hidden, derivation>>
    /\ roster_pc' = "global"
    /\ UNCHANGED <<git_shortlog, contributors_file, inline_args, source, renderer,
                   scanLoopVars, layoutVars, renderVars, pageVars, factsVars>>
    /\ UNCHANGED <<timeVars, walkVars, themeVars, runVars>>

\* Lines 264-308
RosterFromFile ==
    /\ roster_pc = "start"
    /\ renderer.enabled
    /\ source = "File"
    /\ LET parsed == parse_contributors_file(contributors_file)
           r == Roster(parsed, renderer.excluded, renderer.max_visible)
       IN  /\ roster_users' = parsed
           /\ roster_visible' = r.visible
           /\ roster_hidden' = r.hidden
           /\ html_global' = render_contributors_hbs(renderer.title, r.visible, r.hidden)
    /\ roster_pc' = "global"
    /\ UNCHANGED <<git_shortlog, contributors_file, inline_args, derivation, source,
                   renderer, scanLoopVars, layoutVars, renderVars, pageVars, factsVars>>
    /\ UNCHANGED <<timeVars, walkVars, themeVars, runVars>>

\* Lines 309-312 (source inline) and 314-316 (contributors disabled): no
\* global block.
NoGlobalRoster ==
    /\ roster_pc = "start"
    /\ ~renderer.enabled \/ source = "Inline"
    /\ html_global' = <<>>
    /\ roster_pc' = "global"
    /\ UNCHANGED <<git_shortlog, contributors_file, inline_args, roster_users,
                   roster_visible, roster_hidden, derivation, source, renderer,
                   scanLoopVars, layoutVars, renderVars, pageVars, factsVars>>
    /\ UNCHANGED <<timeVars, walkVars, themeVars, runVars>>

\* Lines 375-391: the inline_renderer closure on the handles of one token
InlineRoster ==
    /\ roster_pc = "global"
    /\ renderer.enabled
    /\ source = "Inline"
    /\ LET r == Roster(inline_args, renderer.excluded, renderer.max_visible)
       IN  /\ roster_users' = inline_args
           /\ roster_visible' = r.visible
           /\ roster_hidden' = r.hidden
    /\ out' = inline_renderer(renderer, inline_args)
    /\ roster_pc' = "inline"
    /\ UNCHANGED <<git_shortlog, contributors_file, inline_args, derivation,
                   input, idx, in_fence, fence_ch, fence_len, hist, scanEnvVars,
                   layoutVars, renderVars, pageVars, factsVars>>
    /\ UNCHANGED <<timeVars, walkVars, themeVars, runVars>>

NextRoster ==
    \/ RosterFromGit
    \/ RosterFromFile
    \/ NoGlobalRoster
    \/ InlineRoster

SpecRoster == InitRoster /\ [][NextRoster]_vars

-----------------------------------------------------------------------------
(* timefmt.rs: TzMode::parse *)

DecimalDigits == <<"0", "1", "2", "3", "4", "5", "6", "7", "8", "9">>

IsDigit(c) == \E i \in 1..10 : DecimalDigits[i] = c

DigitValue(c) == (CHOOSE i \in 1..10 : DecimalDigits[i] = c) - 1

\* The largest i32; the smallest is -I32Max - 1.
I32Max == 2147483647

\* str::parse::<i32>(): an optional sign, then one digit or more; None when
\* the text is not of that form or the number does not fit into an i32.
RECURSIVE ParseDigits(_, _, _)
ParseDigits(ds, acc, negative) ==
    IF ds = <<>> THEN Some(acc)
    ELSE LET d == DigitValue(Head(ds))
         IN  IF negative
             THEN IF acc < (IF d = 0 THEN -214748364
                            ELSE -((I32Max - (d - 1)) \div 10))
                  THEN None
                  ELSE ParseDigits(Tail(ds), acc * 10 - d, negative)
             ELSE IF acc > (I32Max - d) \div 10
                  THEN None
                  ELSE ParseDigits(Tail(ds), acc * 10 + d, negative)

parse_i32(s) ==
    LET signed == s # <<>> /\ Head(s) \in {"+", "-"}
        ds     == IF signed THEN Tail(s) ELSE s
    IN  IF ds = <<>> \/ \E i \in 1..Len(ds) : ~IsDigit(ds[i]) THEN None
        ELSE ParseDigits(ds, 0, signed /\ Head(s) = "-")

\* An i32 as its two 16-bit halves (two's complement), and back.
Halves(x) ==
    IF x >= 0 THEN [hi |-> x \div 65536, lo |-> x % 65536]
    ELSE LET y == (x + I32Max) + 1
         IN  [hi |-> (y \div 65536) + 32768, lo |-> (y % 65536)]

FromHalves(hi, lo) ==
    IF hi >= 32768 THEN (hi - 65536) * 65536 + lo ELSE hi * 65536 + lo

\* a * b and a + b in i32, for 0 < b < 32768: the wrapped result, and whether
\* the exact result does not fit (overflow: a panic when the build checks
\* overflow, the wrapped result when it does not).
MulI32(a, b) ==
    LET h  == Halves(a)
        lo == h.lo * b
        hi == h.hi * b + (lo \div 65536)
        w  == FromHalves(hi % 65536, lo % 65536)
    IN  [v |-> w, overflow |-> ~(w % b = 0 /\ w \div b = a)]

AddI32(a, b) ==
    LET x  == Halves(a)
        y  == Halves(b)
        lo == x.lo + y.lo
        hi == x.hi + y.hi + (lo \div 65536)
        w  == FromHalves(hi % 65536, lo % 65536)
    IN  [v |-> w,
         overflow |-> \/ a >= 0 /\ b >= 0 /\ w < 0
                      \/ a < 0 /\ b < 0 /\ w >= 0]

NegI32(a) ==
    IF a = (-I32Max) - 1 THEN [v |-> a, overflow |-> TRUE]
    ELSE [v |-> -a, overflow |-> FALSE]

\* Lines 20-29: the closure of and_then on the text after "fixed:": none,
\* some seconds, or a panic when the arithmetic overflows in a build that
\* checks overflow.
FixedSeconds(off, overflow_checks) ==
    LET sp == SplitOnce(off, ":")
    IN  IF ~IsSome(sp) THEN [kind |-> "None"]
        ELSE LET h == sp[1][1]
                 m == sp[1][2]
             IN  IF h = <<>> \/ Head(h) \notin {"+", "-"} THEN [kind |-> "None"]
                 ELSE LET ph == parse_i32(Tail(h))
                          pm == parse_i32(m)
                      IN  IF ~IsSome(ph) \/ ~IsSome(pm) THEN [kind |-> "None"]
                          ELSE LET hs  == MulI32(ph[1], 3600)
                                   ms  == MulI32(pm[1], 60)
                                   sum == AddI32(hs.v, ms.v)
                                   tot == IF Head(h) = "-" THEN NegI32(sum.v)
                                          ELSE [v |-> sum.v, overflow |-> FALSE]
                               IN  IF overflow_checks
                                      /\ (hs.overflow \/ ms.overflow
                                          \/ sum.overflow \/ tot.overflow)
                                   THEN [kind |-> "Panic"]
                                   ELSE [kind |-> "Some", v |-> tot.v]

\* FixedOffset::east_opt
east_opt(secs) == IF -86400 < secs /\ secs < 86400 THEN Some(secs) ELSE None

\* str::to_ascii_lowercase on the words of the model
Lower(a) ==
    CASE a = "UTC" -> "utc"
      [] a = "Source" -> "source"
      [] a = "FIXED:" -> "fixed:"
      [] OTHER -> a

ToAsciiLowercase(s) == [i \in 1..Len(s) |-> Lower(s[i])]

\* Lines 12-42
TzMode_parse(s, overflow_checks) ==
    LET raw == ToAsciiLowercase(Trim(UnwrapOr(s, <<"local">>)))
    IN  IF raw = <<"local">> THEN [kind |-> "Local"]
        ELSE IF raw = <<"utc">> THEN [kind |-> "Utc"]
        ELSE IF raw = <<"source">> THEN [kind |-> "Source"]
        ELSE IF StartsWith(raw, <<"fixed:">>)
        THEN LET secs == FixedSeconds(Tail(raw), overflow_checks)
             IN  IF secs.kind = "Panic" THEN [kind |-> "Panic"]
                 ELSE IF secs.kind = "Some" /\ IsSome(east_opt(secs.v))
                 THEN [kind |-> "Fixed", secs |-> secs.v]
                 ELSE [kind |-> "Local"]
        ELSE [kind |-> "Local"]

-----------------------------------------------------------------------------
(* timefmt.rs: format_commit_datetime *)

IsLeap(y) == y % 4 = 0 /\ (y % 100 # 0 \/ y % 400 = 0)

DaysIn(y, mo) ==
    IF mo = 2 THEN (IF IsLeap(y) THEN 29 ELSE 28)
    ELSE IF mo \in {4, 6, 9, 11} THEN 30 ELSE 31

NextDay(dt) ==
    IF dt.d < DaysIn(dt.y, dt.mo) THEN [dt EXCEPT !.d = dt.d + 1]
    ELSE IF dt.mo < 12 THEN [dt EXCEPT !.mo = dt.mo + 1, !.d = 1]
    ELSE [dt EXCEPT !.y = dt.y + 1, !.mo = 1, !.d = 1]

PrevDay(dt) ==
    IF dt.d > 1 THEN [dt EXCEPT !.d = dt.d - 1]
    ELSE IF dt.mo > 1
    THEN [dt EXCEPT !.mo = dt.mo - 1, !.d = DaysIn(dt.y, dt.mo - 1)]
    ELSE [dt EXCEPT !.y = dt.y - 1, !.mo = 12, !.d = 31]

RECURSIVE AddDays(_, _)
AddDays(dt, k) ==
    IF k = 0 THEN dt
    ELSE IF k > 0 THEN AddDays(NextDay(dt), k - 1)
    ELSE AddDays(PrevDay(dt), k + 1)

\* The number a run of digits stands for (at most four digits here).
RECURSIVE Number(_)
Number(ds) ==
    IF ds = <<>> THEN 0 ELSE Number(SubSeq(ds, 1, Len(ds) - 1)) * 10
                             + DigitValue(ds[Len(ds)])

AllDigits(ds) == \A i \in 1..Len(ds) : IsDigit(ds[i])

\* DateTime::parse_from_rfc3339 on YYYY-MM-DDTHH:MM:SS followed by Z or
\* by +HH:MM / -HH:MM: the wall-clock date, the seconds of the day and the
\* offset in seconds, or Err.
parse_from_rfc3339(raw) ==
    LET n    == Len(raw)
        zulu == n = 20 /\ raw[20] = "Z"
        num  == n = 25 /\ raw[20] \in {"+", "-"} /\ raw[23] = ":"
                       /\ AllDigits(SubSeq(raw, 21, 22))
                       /\ AllDigits(SubSeq(raw, 24, 25))
        shape == /\ zulu \/ num
                 /\ AllDigits(SubSeq(raw, 1, 4)) /\ raw[5] = "-"
                 /\ AllDigits(SubSeq(raw, 6, 7)) /\ raw[8] = "-"
                 /\ AllDigits(SubSeq(raw, 9, 10)) /\ raw[11] = "T"
                 /\ AllDigits(SubSeq(raw, 12, 13)) /\ raw[14] = ":"
                 /\ AllDigits(SubSeq(raw, 15, 16)) /\ raw[17] = ":"
                 /\ AllDigits(SubSeq(raw, 18, 19))
    IN  IF ~shape THEN Err
        ELSE LET y  == Number(SubSeq(raw, 1, 4))
                 mo == Number(SubSeq(raw, 6, 7))
                 d  == Number(SubSeq(raw, 9, 10))
                 h  == Number(SubSeq(raw, 12, 13))
                 mi == Number(SubSeq(raw, 15, 16))
                 sc == Number(SubSeq(raw, 18, 19))
                 oh == IF zulu THEN 0 ELSE Number(SubSeq(raw, 21, 22))
                 om == IF zulu THEN 0 ELSE Number(SubSeq(raw, 24, 25))
                 sg == IF ~zulu /\ raw[20] = "-" THEN -1 ELSE 1
             IN  IF /\ mo \in 1..12 /\ d \in 1..DaysIn(y, mo)
                    /\ h < 24 /\ mi < 60 /\ sc < 60 /\ oh < 24 /\ om < 60
                 THEN Ok([y |-> y, mo |-> mo, d |-> d,
                          secs |-> h * 3600 + mi * 60 + sc,
                          off |-> sg * (oh * 3600 + om * 60)])
                 ELSE Err

\* DateTime::with_timezone: the same instant on the clock of another offset.
with_timezone(dt, off) ==
    LET total == dt.secs - dt.off + off
        day   == AddDays(dt, total \div 86400)
    IN  [day EXCEPT !.secs = total % 86400, !.off = off]

Pad2(n) == <<DecimalDigits[((n \div 10) % 10) + 1], DecimalDigits[(n % 10) + 1]>>

\* DateTime::format: the specifiers used here, any other atom is literal.
FormatItem(dt, it) ==
    CASE it = "%Y" -> Pad2(dt.y \div 100) \o Pad2(dt.y % 100)
      [] it = "%m" -> Pad2(dt.mo)
      [] it = "%d" -> Pad2(dt.d)
      [] it = "%H" -> Pad2(dt.secs \div 3600)
      [] it = "%M" -> Pad2((dt.secs \div 60) % 60)
      [] it = "%S" -> Pad2(dt.secs % 60)
      [] it = "%:z" ->
            LET a == IF dt.off < 0 THEN -dt.off ELSE dt.off
            IN  <<IF dt.off < 0 THEN "-" ELSE "+">> \o Pad2(a \div 3600)
                    \o <<":">> \o Pad2((a \div 60) % 60)
      [] OTHER -> <<it>>

Format(dt, fmt) == Flatten([i \in 1..Len(fmt) |-> FormatItem(dt, fmt[i])])

format_commit_datetime_empty_when_unparsed(raw_rfc3339, tz_opt, date_fmt, time_fmt, local, overflow_checks) ==
    LET parsed == parse_from_rfc3339(raw_rfc3339)
        mode   == TzMode_parse(tz_opt, overflow_checks)
    IN  IF ~IsOk(parsed) THEN <<>>
        ELSE IF mode.kind = "Panic" THEN Panic
        ELSE Format(with_timezone(parsed[1], local), Trim(date_fmt \o <<" ">> \o time_fmt))

\* Lines 47-67.  local is the offset of the host's zone at that instant;
\* the result is Panic when TzMode::parse panics.
format_commit_datetime(raw_rfc3339, tz_opt, date_fmt, time_fmt, local, overflow_checks) ==
    LET parsed == parse_from_rfc3339(raw_rfc3339)
    IN  IF ~IsOk(parsed) THEN <<"unknown">>
        ELSE LET dt_src == parsed[1]
                 mode   == TzMode_parse(tz_opt, overflow_checks)
                 fmt    == Trim(date_fmt \o <<" ">> \o time_fmt)
             IN  IF mode.kind = "Panic" THEN Panic
                 ELSE IF mode.kind = "Utc" THEN Format(with_timezone(dt_src, 0), fmt)
                 ELSE IF mode.kind = "Source" THEN Format(dt_src, fmt)
                 ELSE IF mode.kind = "Fixed"
                 THEN Format(with_timezone(dt_src, mode.secs), fmt)
                 ELSE Format(with_timezone(dt_src, local), fmt)

-----------------------------------------------------------------------------
(* format_commit_datetime as called by GitInfo::run (processor.rs 338-348) *)

\* What git log --format=%cI prints for a commit.
CommitDates ==
    { <<"2", "0", "2", "6", "-", "0", "1", "-", "1", "4", "T", "0", "0", ":", "0", "0", ":", "0", "0", "+", "0", "0", ":", "0", "0">>,
      <<"2", "0", "2", "6", "-", "0", "1", "-", "1", "4", "T", "2", "3", ":", "4", "5", ":", "1", "0", "-", "0", "8", ":", "0", "0">>,
      <<"2", "0", "2", "5", "-", "1", "2", "-", "3", "1", "T", "2", "2", ":", "0", "0", ":", "0", "0", "-", "0", "3", ":", "0", "0">>,
      <<"2", "0", "2", "4", "-", "0", "3", "-", "0", "1", "T", "0", "1", ":", "0", "0", ":", "0", "0", "+", "0", "5", ":", "3", "0">>,
      <<"2", "0", "2", "6", "-", "0", "1", "-", "1", "4", "T", "0", "0", ":", "0", "0", ":", "0", "0", "Z">> }

\* What else may reach the formatter: the empty string of a failed lookup,
\* a date without a time, a time without an offset, a month and a day that
\* do not exist.
BrokenDates ==
    { <<>>,
      <<"2", "0", "2", "6", "-", "0", "1", "-", "1", "4">>,
      <<"2", "0", "2", "6", "-", "0", "1", "-", "1", "4", "T", "0", "0", ":", "0", "0", ":", "0", "0">>,
      <<"2", "0", "2", "6", "-", "1", "3", "-", "1", "4", "T", "0", "0", ":", "0", "0", ":", "0", "0", "+", "0", "0", ":", "0", "0">>,
      <<"2", "0", "2", "6", "-", "0", "2", "-", "3", "0", "T", "0", "0", ":", "0", "0", ":", "0", "0", "+", "0", "0", ":", "0", "0">>,
      <<"unknown">> }

Timezones ==
    { None,
      Some(<<"local">>), Some(<<"utc">>), Some(<<"UTC">>),
      Some(<<" ", "source", " ">>), Some(<<"europe/london">>),
      Some(<<"fixed:", "+", "0", "5", ":", "3", "0">>),
      Some(<<"FIXED:", "-", "0", "8", ":", "0", "0">>),
      Some(<<"fixed:", "+", "2", "4", ":", "0", "0">>),
      Some(<<"fixed:", "+", "0", "5", "3", "0">>),
      Some(<<"fixed:", "0", "5", ":", "3", "0">>),
      Some(<<"fixed:", "+", "-", "0", "5", ":", "3", "0">>),
      Some(<<"fixed:", "+", "0", "5", ":", "9", "0">>),
      Some(<<"fixed:", "+", "1", "1", "9", "3", "0", "4", "7", ":", "0", "0">>) }

\* date_format and time_format: the defaults of lines 199-200, the patterns
\* of the documented scenario, and an empty time pattern.
FormatPairs ==
    { << <<"%Y", "-", "%m", "-", "%d">>, <<"%H", ":", "%M", ":", "%S">> >>,
      << <<"%Y", "-", "%m", "-", "%d">>, <<"%H", ":", "%M">> >>,
      << <<"%d", "/", "%m", "/", "%Y">>, <<"%H", ":", "%M", " ", "%:z">> >>,
      << <<"%Y", "-", "%m", "-", "%d">>, <<>> >> }

\* The offset of the host's zone.
LocalOffsets == {3600, -18000}

InitTime ==
    /\ raw_date \in CommitDates \cup BrokenDates
    /\ timezone \in Timezones
    /\ \E f \in FormatPairs :
          /\ date_format = f[1]
          /\ time_format = f[2]
    /\ local_offset \in LocalOffsets
    /\ formatted_date = Unset
    /\ time_pc = "start"
    /\ IdleScan
    /\ IdleLayout
    /\ IdleRender
    /\ IdlePage
    /\ IdleFacts
    /\ IdleRoster
    /\ IdleWalk
    /\ IdleTheme
    /\ IdleRun

\* Line 55: the timestamp does not parse.
FormatUnparsed ==
    /\ time_pc = "start"
    /\ ~IsOk(parse_from_rfc3339(raw_date))
    /\ formatted_date' = format_commit_datetime(raw_date, timezone, date_format,
                                                time_format, local_offset, FALSE)
    /\ time_pc' = "done"
    /\ UNCHANGED <<raw_date, timezone, date_format, time_format, local_offset>>
    /\ UNCHANGED <<scanVars, layoutVars, renderVars, pageVars, factsVars, rosterVars,
                   walkVars, themeVars, runVars>>

\* Lines 58-66: the timestamp parses.  Whether i32 overflow panics or wraps
\* is a matter of the build profile.
FormatParsed ==
    /\ time_pc = "start"
    /\ IsOk(parse_from_rfc3339(raw_date))
    /\ \E overflow_checks \in BOOLEAN :
          formatted_date' = format_commit_datetime(raw_date, timezone, date_format,
                                time_format, local_offset, overflow_checks)
    /\ time_pc' = "done"
    /\ UNCHANGED <<raw_date, timezone, date_format, time_format, local_offset>>
    /\ UNCHANGED <<scanVars, layoutVars, renderVars, pageVars, factsVars, rosterVars,
                   walkVars, themeVars, runVars>>

NextTime ==
    \/ FormatUnparsed
    \/ FormatParsed

SpecTime == InitTime /\ [][NextTime]_vars

-----------------------------------------------------------------------------
(* chapters.rs: decorate_chapters *)

\* The closure given to decorate_chapters (processor.rs 321-442): a chapter
\* without a path is left as it is.
decorate(ch) ==
    IF IsSome(ch.path) THEN [ch EXCEPT !.content = DecorateChapter(ch.content, vals)]
    ELSE ch

\* The result is the item after the walk and the positions of the chapters
\* the closure was called on, in the order of the calls.  A position is the
\* path of indices that leads from the item to the node.
RECURSIVE decorate_chapters_children_first(_, _)
decorate_chapters_children_first(it, pos) ==
    IF it.kind # "Chapter" THEN [item |-> it, log |-> <<>>]
    ELSE LET subs == [i \in 1..Len(it.sub_items) |->
                         decorate_chapters_children_first(it.sub_items[i],
                                                          Append(pos, i))]
             ch   == decorate(it)
         IN  [item |-> [ch EXCEPT !.sub_items =
                                     [i \in 1..Len(subs) |-> subs[i].item]],
              log  |-> Flatten([i \in 1..Len(subs) |-> subs[i].log]) \o <<pos>>]

RECURSIVE decorate_chapters(_, _)
decorate_chapters(it, pos) ==
    IF it.kind # "Chapter" THEN [item |-> it, log |-> <<>>]
    ELSE LET ch   == decorate(it)
             subs == [i \in 1..Len(ch.sub_items) |->
                         decorate_chapters(ch.sub_items[i], Append(pos, i))]
         IN  [item |-> [ch EXCEPT !.sub_items =
                                     [i \in 1..Len(subs) |-> subs[i].item]],
              log  |-> <<pos>> \o Flatten([i \in 1..Len(subs) |-> subs[i].log])]

-----------------------------------------------------------------------------
(* The book items walked *)

Separator == [kind |-> "Separator"]

Chapter(path, body, subs) ==
    [kind |-> "Chapter", path |-> path, content |-> body, sub_items |-> subs]

ChapterPaths == {None, Some(<<"a.md">>)}

ChapterBody == <<"x", "\n">>

\* No item, one item or two items of S.
Forests(S) == {<<>>} \cup {<<a>> : a \in S} \cup {<<a, b>> : a \in S, b \in S}

Leaves == {Separator} \cup {Chapter(p, ChapterBody, <<>>) : p \in ChapterPaths}

Nested ==
    Leaves \cup {Chapter(p, ChapterBody, f) : p \in ChapterPaths, f \in Forests(Leaves)}

BookItems ==
    Nested \cup {Chapter(p, ChapterBody, f) : p \in ChapterPaths, f \in Forests(Nested)}

InitWalk ==
    /\ item \in BookItems
    /\ walked = Unset
    /\ visited = <<>>
    /\ walk_pc = "start"
    /\ content = <<>>
    /\ runs = 0
    /\ first_pass = Unset
    /\ show_header = FALSE
    /\ show_footer = TRUE
    /\ cfg = NoConfig
    /\ layout_pc = "resolved"
    /\ header_tmpl = resolve_messages(NoConfig)[1]
    /\ footer_tmpl = resolve_messages(NoConfig)[2]
    /\ align_header = resolve_align(NoConfig.align)[1]
    /\ align_footer = resolve_align(NoConfig.align)[2]
    /\ margin_header = resolve_margins(NoConfig.margin)[1]
    /\ margin_footer = resolve_margins(NoConfig.margin)[2]
    /\ IdleScan
    /\ IdleRender
    /\ IdleFacts
    /\ IdleRoster
    /\ IdleTime
    /\ IdleTheme
    /\ IdleRun

\* Lines 7-12: the item is a chapter.
WalkChapter ==
    /\ walk_pc = "start"
    /\ item.kind = "Chapter"
    /\ walked' = decorate_chapters(item, <<>>).item
    /\ visited' = decorate_chapters(item, <<>>).log
    /\ walk_pc' = "done"
    /\ UNCHANGED item
    /\ UNCHANGED <<scanVars, layoutVars, renderVars, pageVars, factsVars, rosterVars,
                   timeVars, themeVars, runVars>>

\* Line 7: the item is not a chapter.
WalkOtherItem ==
    /\ walk_pc = "start"
    /\ item.kind # "Chapter"
    /\ walked' = decorate_chapters(item, <<>>).item
    /\ visited' = decorate_chapters(item, <<>>).log
    /\ walk_pc' = "done"
    /\ UNCHANGED item
    /\ UNCHANGED <<scanVars, layoutVars, renderVars, pageVars, factsVars, rosterVars,
                   timeVars, themeVars, runVars>>

NextWalk ==
    \/ WalkChapter
    \/ WalkOtherItem

SpecWalk == InitWalk /\ [][NextWalk]_vars

-----------------------------------------------------------------------------
(* theme.rs: ensure_css_file, ensure_book_toml_additional_css *)

\* book.toml is a sequence of lines, a line a sequence of tokens: a table
\* header is one token, a key / value line is the key, "=" and the tokens of
\* the value; a string is written between two quote tokens, an array between
\* "[" and "]" with "," between its items.

CSS_REL_PATH == "theme/gitinfo.css"

Quote == "\""

Str(s) == <<Quote, s, Quote>>

TableHeaders == {<<"[book]">>, <<"[output]">>, <<"[output.html]">>, <<"[output.pdf]">>}

IsKeyValue(l) == Len(l) >= 3 /\ l[2] = "="

\* str::parse::<DocumentMut> fails on a line that is neither (lines 43-45).
ParsesAsToml(raw) ==
    \A i \in 1..Len(raw) : raw[i] \in TableHeaders \/ IsKeyValue(raw[i])

\* The items of an array written as tokens, and the tokens of an array.
RECURSIVE SplitCommas(_)
SplitCommas(ts) ==
    IF ts = <<>> THEN <<>>
    ELSE LET at == {k \in 1..Len(ts) : ts[k] = ","}
             k  == CHOOSE a \in at : \A b \in at : a <= b
         IN  IF at = {} THEN <<ts>>
             ELSE <<SubSeq(ts, 1, k - 1)>> \o SplitCommas(SubSeq(ts, k + 1, Len(ts)))

RECURSIVE JoinCommas(_)
JoinCommas(items) ==
    IF items = <<>> THEN <<>>
    ELSE IF Len(items) = 1 THEN items[1]
    ELSE items[1] \o <<",">> \o JoinCommas(Tail(items))

ArrayTokens(items) == <<"[">> \o JoinCommas(items) \o <<"]">>

\* The Item a value is: a string, an array or something else.
ParseValue(ts) ==
    IF Len(ts) = 3 /\ ts[1] = Quote /\ ts[3] = Quote
    THEN [kind |-> "String", value |-> ts[2]]
    ELSE IF Len(ts) >= 2 /\ ts[1] = "[" /\ ts[Len(ts)] = "]"
    THEN [kind |-> "Array", items |-> SplitCommas(SubSeq(ts, 2, Len(ts) - 1))]
    ELSE [kind |-> "Other"]

\* The line of the header [output.html], 0 when there is none; the last line
\* of that table; the line of additional-css in it, 0 when there is none.
HtmlHeader(doc) ==
    LET at == {i \in 1..Len(doc) : doc[i] = <<"[output.html]">>}
    IN  IF at = {} THEN 0 ELSE CHOOSE a \in at : \A b \in at : a <= b

HtmlEnd(doc) ==
    LET later == {i \in (HtmlHeader(doc) + 1)..Len(doc) : doc[i] \in TableHeaders}
    IN  IF later = {} THEN Len(doc)
        ELSE (CHOOSE a \in later : \A b \in later : a <= b) - 1

AdditionalCss(doc) ==
    LET at == {i \in (HtmlHeader(doc) + 1)..HtmlEnd(doc) :
                  doc[i][1] = "additional-css"}
    IN  IF HtmlHeader(doc) = 0 \/ at = {} THEN 0
        ELSE CHOOSE a \in at : \A b \in at : a <= b

CssLine(items) == <<"additional-css", "=">> \o ArrayTokens(items)

\* Lines 18-31.  The result is the file afterwards, Ok or Err, and whether
\* the file was written.
ensure_css_file(file, css_contents, dir_ok, write_ok) ==
    IF ~dir_ok THEN [file |-> file, result |-> "Err", wrote |-> FALSE]
    ELSE IF file = Some(css_contents)
    THEN [file |-> file, result |-> "Ok", wrote |-> FALSE]
    ELSE IF write_ok
    THEN [file |-> Some(css_contents), result |-> "Ok", wrote |-> TRUE]
    ELSE [file |-> file, result |-> "Err", wrote |-> FALSE]

\* Lines 56-95: the document with additional-css brought up to date, or Err.
\* doc has the table [output.html].
UpdatedDocument_always_append(doc) ==
    LET at   == AdditionalCss(doc)
        it   == IF at = 0 THEN [kind |-> "None"] ELSE ParseValue(Skip(doc[at], 2))
        css  == Str(CSS_REL_PATH)
        last == HtmlEnd(doc)
    IN  IF it.kind = "None"
        THEN Ok(SubSeq(doc, 1, last) \o <<CssLine(<<css>>)>>
                    \o SubSeq(doc, last + 1, Len(doc)))
        ELSE IF it.kind = "Array"
        THEN Ok([doc EXCEPT ![at] = CssLine(Append(it.items, css))])
        ELSE IF it.kind = "String"
        THEN Ok([doc EXCEPT ![at] = CssLine(<<Str(it.value), css>>)])
        ELSE Err

UpdatedDocument(doc) ==
    LET at   == AdditionalCss(doc)
        it   == IF at = 0 THEN [kind |-> "None"] ELSE ParseValue(Skip(doc[at], 2))
        css  == Str(CSS_REL_PATH)
        last == HtmlEnd(doc)
    IN  IF it.kind = "None"
        THEN Ok(SubSeq(doc, 1, last) \o <<CssLine(<<css>>)>>
                    \o SubSeq(doc, last + 1, Len(doc)))
        ELSE IF it.kind = "Array"
        THEN LET already == \E i \in 1..Len(it.items) : it.items[i] = css
             IN  IF ~already
                 THEN Ok([doc EXCEPT ![at] = CssLine(Append(it.items, css))])
                 ELSE Ok(doc)
        ELSE IF it.kind = "String"
        THEN LET needs_css == it.value # CSS_REL_PATH
             IN  Ok([doc EXCEPT ![at] =
                        CssLine(IF needs_css THEN <<Str(it.value), css>>
                                ELSE <<Str(it.value)>>)])
        ELSE Err

\* Lines 34-105
ensure_book_toml_additional_css(file, write_ok) ==
    IF ~IsSome(file) THEN [file |-> file, result |-> "Ok", wrote |-> FALSE]
    ELSE IF ~ParsesAsToml(file[1])
    THEN [file |-> file, result |-> "Err", wrote |-> FALSE]
    ELSE LET raw     == file[1]
             doc     == IF HtmlHeader(raw) = 0 THEN Append(raw, <<"[output.html]">>)
                        ELSE raw
             updated == UpdatedDocument(doc)
         IN  IF ~IsOk(updated)
             THEN [file |-> file, result |-> "Err", wrote |-> FALSE]
             ELSE IF updated[1] = raw
             THEN [file |-> file, result |-> "Ok", wrote |-> FALSE]
             ELSE IF write_ok
             THEN [file |-> Some(updated[1]), result |-> "Ok", wrote |-> TRUE]
             ELSE [file |-> file, result |-> "Err", wrote |-> FALSE]

-----------------------------------------------------------------------------
(* ensure_gitinfo_assets, once per run (processor.rs 165-168) *)

\* The embedded stylesheet (renderer.rs 5).
GITINFO_CSS == <<"<gitinfo.css>">>

CssFiles == {None, Some(GITINFO_CSS), Some(<<"<older gitinfo.css>">>)}

BookLine == <<"[book]">>

TitleLine == <<"title", "=", Quote, "My book", Quote>>

HtmlLine == <<"[output.html]">>

\* The values additional-css is found with.
CssValues ==
    { Str(CSS_REL_PATH),
      Str("custom.css"),
      ArrayTokens(<<>>),
      ArrayTokens(<<Str(CSS_REL_PATH)>>),
      ArrayTokens(<<Str("a.css"), Str("b.css")>>),
      ArrayTokens(<<Str("a.css"), Str(CSS_REL_PATH), Str("b.css")>>),
      ArrayTokens(<<Str("a.css"), <<"1">>>>),
      <<"5">>,
      <<"true">> }

BookTomls ==
    { None,
      Some(<<BookLine, TitleLine>>),
      Some(<<BookLine, <<"[output]">>>>),
      Some(<<BookLine, HtmlLine, <<"mathjax-support", "=", "true">>,
             <<"[output.pdf]">>, <<"additional-css", "=">> \o Str("print.css")>>),
      Some(<<BookLine, <<"title", "=">>>>) }
    \cup {Some(<<BookLine, HtmlLine, <<"additional-css", "=">> \o v>>) : v \in CssValues}
    \cup {Some(<<HtmlLine, <<"additional-css", "=">> \o v, <<"[output.pdf]">>>>) :
             v \in CssValues}

InitTheme ==
    /\ book_toml \in BookTomls
    /\ css_file \in CssFiles
    /\ theme_hist = <<>>
    /\ theme_pc = "css"
    /\ IdleScan
    /\ IdleLayout
    /\ IdleRender
    /\ IdlePage
    /\ IdleFacts
    /\ IdleRoster
    /\ IdleTime
    /\ IdleWalk
    /\ IdleRun

\* Lines 9-11
EnsureCssFile ==
    /\ theme_pc = "css"
    /\ Len(theme_hist) < 2 * MaxRuns
    /\ \E dir_ok \in BOOLEAN, write_ok \in BOOLEAN :
          LET r == ensure_css_file(css_file, GITINFO_CSS, dir_ok, write_ok)
          IN  /\ css_file' = r.file
              /\ theme_hist' = Append(theme_hist,
                     [op |-> "css", before |-> css_file, after |-> r.file,
                      result |-> r.result, wrote |-> r.wrote])
    /\ theme_pc' = "toml"
    /\ UNCHANGED book_toml
    /\ UNCHANGED <<scanVars, layoutVars, renderVars, pageVars, factsVars, rosterVars,
                   timeVars, walkVars, runVars>>

\* Lines 13-15
EnsureBookToml ==
    /\ theme_pc = "toml"
    /\ \E write_ok \in BOOLEAN :
          LET r == ensure_book_toml_additional_css(book_toml, write_ok)
          IN  /\ book_toml' = r.file
              /\ theme_hist' = Append(theme_hist,
                     [op |-> "toml", before |-> book_toml, after |-> r.file,
                      result |-> r.result, wrote |-> r.wrote])
    /\ theme_pc' = "css"
    /\ UNCHANGED css_file
    /\ UNCHANGED <<scanVars, layoutVars, renderVars, pageVars, factsVars, rosterVars,
                   timeVars, walkVars, runVars>>

NextTheme ==
    \/ EnsureCssFile
    \/ EnsureBookToml

SpecTheme == InitTheme /\ [][NextTheme]_vars

-----------------------------------------------------------------------------
(* GitInfo::run from the configuration to the last chapter *)

\* git.rs 112-114
verify_branch_always_true(proc) == TRUE

verify_branch(proc) == IsOk(get_git_output(proc))

\* GitInfoConfig::default(): the fields the run as a whole reads.
DefaultConfig ==
    [enable |-> None, branch |-> None, tag |-> None, timezone |-> None,
     contributors |-> None]

\* config.rs 210-215: the table is absent, cannot be converted, or converts.
load_config(table) == IF table.kind = "table" THEN Ok(table.fields) ELSE Err

\* processor.rs 154
LoadedConfig(table) ==
    IF IsOk(load_config(table)) THEN load_config(table)[1] ELSE DefaultConfig

OverflowingZone == <<"fixed:", "+", "1", "1", "9", "3", "0", "4", "7", ":", "0", "0">>

ConfigTables ==
    { [kind |-> "absent"], [kind |-> "malformed"] }
    \cup { [kind |-> "table", fields |-> f] :
             f \in { DefaultConfig,
                     [DefaultConfig EXCEPT !.enable = Some(FALSE)],
                     [DefaultConfig EXCEPT !.branch = Some(<<"main">>)],
                     [DefaultConfig EXCEPT !.branch = Some(<<"dev">>)],
                     [DefaultConfig EXCEPT !.branch = Some(<<"dev">>),
                                           !.tag = Some(<<" ", "v9", " ">>)],
                     [DefaultConfig EXCEPT !.tag = Some(<<" ">>),
                                           !.timezone = Some(<<"utc">>)],
                     [DefaultConfig EXCEPT !.timezone = Some(OverflowingZone)],
                     [DefaultConfig EXCEPT !.contributors = Some(TRUE)] } }

\* The chapters of the book in walk order: TRUE for a chapter with a path.
MaxPages == 2

PageLists == UNION {[1..n -> BOOLEAN] : n \in 1..MaxPages}

CommitDate ==
    <<"2", "0", "2", "6", "-", "0", "1", "-", "1", "4", "T", "0", "0", ":", "0", "0",
      ":", "0", "0", "+", "0", "0", ":", "0", "0">>

Failed == Exited(FALSE, <<>>)

\* The outcomes of the three git log calls of a chapter: all succeed, all
\* fail, only the date fails, all succeed and print nothing.
PageLookups ==
    { [short |-> Exited(TRUE, <<"ab12cd3", "\n">>),
       long  |-> Exited(TRUE, <<"ab12cd3", "e4f5", "\n">>),
       date  |-> Exited(TRUE, CommitDate \o <<"\n">>)],
      [short |-> Failed, long |-> Failed, date |-> Failed],
      [short |-> Exited(TRUE, <<"ab12cd3", "\n">>),
       long  |-> Exited(TRUE, <<"ab12cd3", "e4f5", "\n">>),
       date  |-> Failed],
      [short |-> Exited(TRUE, <<>>), long |-> Exited(TRUE, <<>>),
       date  |-> Exited(TRUE, <<>>)] }

\* A git command that names a branch, as run: the branch given, whether the
\* process exited successfully.
GitCall(op, br, proc) == [op |-> op, branch |-> br, success |-> proc.success]

runFrame ==
    <<scanLoopVars, source, renderer, layoutVars, renderVars, pageVars, hyperlink,
      cfg_tag, repo_env, git_remote, git_describe, git_tags, repo_base, hash_disp,
      branch_disp, tag_disp, facts_pc, rosterVars, timeVars, walkVars, themeVars>>

InitRun ==
    /\ config_table \in ConfigTables
    /\ pages \in PageLists
    /\ run_cfg = Unset
    /\ run_branch = Unset
    /\ git_calls = <<>>
    /\ page_facts = <<>>
    /\ run_pc = "start"
    /\ IdleScan
    /\ IdleLayout
    /\ IdleRender
    /\ IdlePage
    /\ IdleFacts
    /\ IdleRoster
    /\ IdleTime
    /\ IdleWalk
    /\ IdleTheme

\* Lines 154-157 and 201
LoadConfig ==
    /\ run_pc = "start"
    /\ LET c == LoadedConfig(config_table)
       IN  /\ run_cfg' = c
           /\ run_branch' = UnwrapOr(c.branch, <<"main">>)
           /\ run_pc' = IF ~UnwrapOr(c.enable, TRUE) THEN "disabled" ELSE "tag"
    /\ UNCHANGED <<config_table, git_calls, pages, page_facts, resolved_tag,
                   html_global>>
    /\ UNCHANGED runFrame

\* Lines 208-210: a tag is configured and not blank.
UseConfiguredTag ==
    /\ run_pc = "tag"
    /\ IsSome(run_cfg.tag) /\ Trim(run_cfg.tag[1]) # <<>>
    /\ resolved_tag' = resolve_tag(run_cfg.tag, Failed, Failed)
    /\ run_pc' = "verify"
    /\ UNCHANGED <<config_table, run_cfg, run_branch, git_calls, pages, page_facts,
                   html_global>>
    /\ UNCHANGED runFrame

\* Lines 211-213: latest_tag_for_branch(&branch, ..)
LookUpTag ==
    /\ run_pc = "tag"
    /\ ~(IsSome(run_cfg.tag) /\ Trim(run_cfg.tag[1]) # <<>>)
    /\ \E describe \in DescribeOutcomes, tag_list \in {Failed, Exited(TRUE, <<"v2.0.0", "\n">>)} :
          /\ resolved_tag' = resolve_tag(run_cfg.tag, describe, tag_list)
          /\ git_calls' = Append(git_calls, GitCall("describe", run_branch, describe))
    /\ run_pc' = "verify"
    /\ UNCHANGED <<config_table, run_cfg, run_branch, pages, page_facts, html_global>>
    /\ UNCHANGED runFrame

\* Lines 215-221
VerifyBranch ==
    /\ run_pc = "verify"
    /\ \E proc \in {Failed, Exited(TRUE, <<"ab12cd3", "e4f5", "\n">>)} :
          /\ git_calls' = Append(git_calls, GitCall("verify", run_branch, proc))
          /\ run_branch' = IF ~verify_branch(proc) THEN <<"main">> ELSE run_branch
    /\ run_pc' = "roster"
    /\ UNCHANGED <<config_table, run_cfg, pages, page_facts, resolved_tag, html_global>>
    /\ UNCHANGED runFrame

\* Lines 225-316, for the git source: the global roster block, empty when
\* the shortlog or the template fails.
PrecomputeRoster ==
    /\ run_pc = "roster"
    /\ \E shortlog \in {Failed, Exited(TRUE, ShortlogText(<<"a", "l">>, <<"a", "@", "x">>))},
          render_ok \in BOOLEAN :
          LET got == get_contributor_usernames_from_shortlog(shortlog)
              r   == Roster(got[1], {}, 24)
          IN  html_global' =
                 IF UnwrapOr(run_cfg.contributors, FALSE) /\ IsOk(got) /\ render_ok
                 THEN render_contributors_hbs(DefaultTitle, r.visible, r.hidden)
                 ELSE <<>>
    /\ run_pc' = "walk"
    /\ UNCHANGED <<config_table, run_cfg, run_branch, git_calls, pages, page_facts,
                   resolved_tag>>
    /\ UNCHANGED runFrame

\* The facts of a chapter whose three lookups end as l (lines 326-370 and
\* 409-419, hyperlink off), date being the formatted date.
PageFacts(l, date) ==
    LET short_hash == UnwrapOr(get_git_output(l.short), <<>>)
        long_hash  == UnwrapOr(get_git_output(l.long), <<>>)
        disp       == hash_branch_disp(FALSE, None, short_hash, long_hash, run_branch)
    IN  [decorated |-> TRUE, lookups |-> l,
         short_hash |-> short_hash, long_hash |-> long_hash,
         raw_date |-> UnwrapOr(get_git_output(l.date), <<>>),
         date |-> date, tag |-> resolved_tag, branch_disp |-> disp.branch,
         footer |-> render_template(DefaultMessage, disp.hash, long_hash,
                                    tag_display(FALSE, None, resolved_tag), date,
                                    <<" ", "|", " ">>, disp.branch)]

\* Lines 322-441: the next chapter has a path.  A panic in
\* format_commit_datetime ends the run.
DecoratePage ==
    /\ run_pc = "walk"
    /\ Len(page_facts) < Len(pages)
    /\ pages[Len(page_facts) + 1]
    /\ \E l \in PageLookups, overflow_checks \in BOOLEAN :
          LET raw  == UnwrapOr(get_git_output(l.date), <<>>)
              date == format_commit_datetime(raw, run_cfg.timezone,
                          <<"%Y", "-", "%m", "-", "%d">>,
                          <<"%H", ":", "%M", ":", "%S">>, local_offset,
                          overflow_checks)
          IN  /\ git_calls' = git_calls \o <<GitCall("log %h", run_branch, l.short),
                                             GitCall("log %H", run_branch, l.long),
                                             GitCall("log %cI", run_branch, l.date)>>
              /\ IF date = Panic
                 THEN /\ run_pc' = "panicked"
                      /\ UNCHANGED page_facts
                 ELSE /\ page_facts' = Append(page_facts, PageFacts(l, date))
                      /\ UNCHANGED run_pc
    /\ UNCHANGED <<config_table, run_cfg, run_branch, pages, resolved_tag, html_global>>
    /\ UNCHANGED runFrame

\* Line 322: the next chapter has no path.
SkipPage ==
    /\ run_pc = "walk"
    /\ Len(page_facts) < Len(pages)
    /\ ~pages[Len(page_facts) + 1]
    /\ page_facts' = Append(page_facts, [decorated |-> FALSE])
    /\ UNCHANGED <<config_table, run_cfg, run_branch, git_calls, pages, run_pc,
                   resolved_tag, html_global>>
    /\ UNCHANGED runFrame

\* Line 445: Ok(book)
FinishRun ==
    /\ run_pc = "walk"
    /\ Len(page_facts) = Len(pages)
    /\ run_pc' = "done"
    /\ UNCHANGED <<config_table, run_cfg, run_branch, git_calls, pages, page_facts,
                   resolved_tag, html_global>>
    /\ UNCHANGED runFrame

NextRun ==
    \/ LoadConfig
    \/ UseConfiguredTag
    \/ LookUpTag
    \/ VerifyBranch
    \/ PrecomputeRoster
    \/ DecoratePage
    \/ SkipPage
    \/ FinishRun

SpecRun == InitRun /\ [][NextRun]_vars

-----------------------------------------------------------------------------
(* How the properties read a line, stated without the scanner's own helpers *)

Nl == <<"\n">>

\* The number of leading spaces and tabs of a line.
LeadIndent(line) ==
    CHOOSE k \in 0..Len(line) :
        /\ \A j \in 1..k : line[j] \in {" ", "\t"}
        /\ k = Len(line) \/ line[k + 1] \notin {" ", "\t"}

\* The length of the run of ch that opens the line after its indentation.
LeadRun(line, ch) ==
    LET k == LeadIndent(line)
    IN  CHOOSE n \in 0..(Len(line) - k) :
            /\ \A j \in 1..n : line[k + j] = ch
            /\ k + n = Len(line) \/ line[k + n + 1] # ch

FenceLike(line) == LeadRun(line, Backtick) >= 3 \/ LeadRun(line, Tilde) >= 3

BeginsIndented(line) ==
    \/ Len(line) >= 1 /\ line[1] = "\t"
    \/ Len(line) >= 4 /\ \A j \in 1..4 : line[j] = " "

\* The roster token lines among the line kinds, and those not indented as code.
RosterTokenLines == {l \in LineKinds : Trim(l) \in {Token, TokenWithArgs}}

PlainTokenLines == {l \in RosterTokenLines : ~BeginsIndented(l)}

\* What a replaced token line pushes (processor.rs 116-119).
Replacement(line) ==
    <<"\n">> \o Trim(TokenHtml(line, source, html_global, renderer)) \o <<"\n", "\n">>

InFenceState(ch, n) == [in_fence |-> TRUE, fence_ch |-> ch, fence_len |-> n]

-----------------------------------------------------------------------------
(* C2 *)

\* C2: fence safety.  When a line of exactly three backticks opens a fence
\* (no fence-like line comes before it), every roster token line up to the
\* closing fence line (the next line opening with three or more backticks)
\* is pushed unchanged, and a roster token on the line right after the
\* closing fence line is replaced by the rendered roster block.
C2_FenceSafety ==
    \A i \in 1..idx :
        (/\ input[i] = Fence(Backtick, 3) \o Nl
         /\ \A h \in 1..(i - 1) : ~FenceLike(input[h]))
        => \A k \in (i + 1)..idx :
              (\A m \in (i + 1)..(k - 1) : LeadRun(input[m], Backtick) < 3)
              => /\ input[k] \in RosterTokenLines => hist[k].chunk = input[k]
                 /\ (/\ LeadRun(input[k], Backtick) >= 3
                     /\ k < idx
                     /\ input[k + 1] \in PlainTokenLines)
                    => /\ hist[k + 1].chunk = Replacement(input[k + 1])
                       /\ hist[k + 1].chunk # input[k + 1]

C2_Witness ==
    /\ idx = 4
    /\ input = <<Fence(Backtick, 3) \o Nl, Token \o Nl,
                 Fence(Backtick, 3) \o Nl, Token \o Nl>>
    /\ source = "Git"
    /\ renderer.enabled
    /\ hist[2].chunk = Token \o Nl
    /\ hist[4].chunk = <<"\n">> \o Trim(html_global) \o <<"\n", "\n">>
    /\ Contains(out, <<"<visible>", "a">>)

-----------------------------------------------------------------------------
(* C3 *)

\* One line of the fence state machine, as specified.
FenceMachineStep(h, line) ==
    LET b  == h.before
        a  == h.after
        bt == LeadRun(line, Backtick)
        tl == LeadRun(line, Tilde)
    IN  /\ (~b.in_fence /\ bt >= 3) => a = InFenceState(Backtick, bt)
        /\ (~b.in_fence /\ tl >= 3) => a = InFenceState(Tilde, tl)
        /\ (~b.in_fence /\ bt < 3 /\ tl < 3) => ~a.in_fence
        /\ b.in_fence =>
              /\ ~a.in_fence <=> LeadRun(line, b.fence_ch) >= b.fence_len
              /\ a.in_fence => a = b
              /\ h.chunk = line

\* C3: the fence state machine.  Normal moves to InFence(c, n) on a line
\* opening with a run of n >= 3 backticks or tildes; InFence(c, n) moves back
\* to Normal only on a run of m >= n of the same character and is otherwise
\* unchanged; every line seen in InFence is pushed unchanged.
C3_FenceStateMachine ==
    /\ \A k \in 1..idx : FenceMachineStep(hist[k], input[k])
    /\ \A k \in 1..(idx - 1) : hist[k].after = hist[k + 1].before
    /\ idx > 0 => hist[idx].after = FenceState
    /\ out = Flatten([k \in 1..idx |-> hist[k].chunk])

C3_Witness ==
    /\ idx = 4
    /\ input = <<Fence(Backtick, 4) \o Nl, Fence(Backtick, 3) \o Nl,
                 Fence(Tilde, 3) \o Nl, Token \o Nl>>
    /\ FenceState = InFenceState(Backtick, 4)
    /\ renderer.enabled
    /\ out = Flatten(input)

-----------------------------------------------------------------------------
(* C4 *)

\* The trimmed line is, in its entirety, one token {% contributors [args] %}.
WholeToken(t) ==
    /\ Len(t) >= 4
    /\ SubSeq(t, 1, 2) = <<"{", "%">>
    /\ SubSeq(t, Len(t) - 1, Len(t)) = <<"%", "}">>
    /\ LET mid == SubSeq(t, 3, Len(t) - 2)
       IN  /\ \A j \in 1..Len(mid) : mid[j] \notin {"{", "%", "}"}
           /\ SplitWhitespace(mid) # <<>>
           /\ Head(SplitWhitespace(mid)) = <<"contributors">>

\* C4: whole-line token recognition.  A line is replaced if and only if it
\* is outside the code regions and its trimmed content is exactly one roster
\* token; every line that is not replaced is pushed unchanged.
C4_WholeLineToken ==
    \A k \in 1..idx :
        LET line == input[k]
            outside == /\ ~hist[k].before.in_fence
                       /\ ~FenceLike(line)
                       /\ ~BeginsIndented(line)
        IN  /\ hist[k].arm = "token" <=> (outside /\ WholeToken(Trim(line)))
            /\ hist[k].arm # "token" => hist[k].chunk = line

-----------------------------------------------------------------------------
(* C5 *)

\* C5: indented-code safety.  A roster token on a line that begins with four
\* spaces or with one tab is pushed unchanged, for every source mode and
\* whether contributors are enabled or not.
C5_IndentedCodeSafety ==
    \A k \in 1..idx :
        (input[k] \in RosterTokenLines /\ BeginsIndented(input[k]))
        => hist[k].chunk = input[k]

C5_Witness ==
    /\ idx = 2
    /\ input = <<<<" ", " ", " ", " ">> \o Token \o Nl, <<"\t">> \o Token \o Nl>>
    /\ ~in_fence
    /\ renderer.enabled
    /\ source = "Inline"
    /\ out = Flatten(input)

-----------------------------------------------------------------------------
(* C6 *)

MessagesResolved == layout_pc \in {"align", "margins", "resolved"}

\* The specified chain: own, else both, else template, else the default.
Precedence(own, both, template) ==
    IF own # None THEN own[1]
    ELSE IF both # None THEN both[1]
    ELSE IF template # None THEN template[1]
    ELSE <<"{", "{", "date", "}", "}", "{", "{", "sep", "}", "}", "commit: ",
           "{", "{", "hash", "}", "}">>

OwnMessage(field) == IF cfg.message = None THEN None ELSE cfg.message[1][field]

\* C6: message precedence, for header and footer independently: the
\* placement's own message, else message.both, else the legacy template,
\* else the default; with the four cases the specification names.
C6_MessagePrecedence ==
    MessagesResolved =>
        /\ header_tmpl = Precedence(OwnMessage("header"), OwnMessage("both"), cfg.template)
        /\ footer_tmpl = Precedence(OwnMessage("footer"), OwnMessage("both"), cfg.template)
        /\ (/\ OwnMessage("header") = <<<<"H">>>>
            /\ OwnMessage("both") = <<<<"B">>>>
            /\ cfg.template = <<<<"T">>>>) => header_tmpl = <<"H">>
        /\ (/\ OwnMessage("header") = None
            /\ OwnMessage("footer") = None
            /\ OwnMessage("both") = <<<<"B">>>>
            /\ cfg.template = <<<<"T">>>>)
           => header_tmpl = <<"B">> /\ footer_tmpl = <<"B">>
        /\ (/\ OwnMessage("header") = None
            /\ OwnMessage("footer") = None
            /\ OwnMessage("both") = None
            /\ cfg.template = <<<<"T">>>>)
           => header_tmpl = <<"T">> /\ footer_tmpl = <<"T">>

C6_Witness ==
    /\ layout_pc = "resolved"
    /\ cfg.message = <<[header |-> None, footer |-> None, both |-> <<<<"B">>>>]>>
    /\ cfg.template = <<<<"T">>>>
    /\ header_tmpl = <<"B">>
    /\ footer_tmpl = <<"B">>

-----------------------------------------------------------------------------
(* C7, C8 *)

OwnMargin(field) == IF cfg.margin = None THEN None ELSE cfg.margin[1][field]

\* The variants the shorthand rule covers: a scalar, a list of length
\* 1..4, a per-side record.
CoveredSetting(ms) == ms.kind = "Quad" => Len(ms.vs) \in 1..4

\* CSS shorthand expansion as specified.
CssExpand(ms, fb) ==
    CASE ms.kind = "One" -> <<ms.v, ms.v, ms.v, ms.v>>
      [] ms.kind = "Quad" /\ Len(ms.vs) = 1 -> <<ms.vs[1], ms.vs[1], ms.vs[1], ms.vs[1]>>
      [] ms.kind = "Quad" /\ Len(ms.vs) = 2 -> <<ms.vs[1], ms.vs[2], ms.vs[1], ms.vs[2]>>
      [] ms.kind = "Quad" /\ Len(ms.vs) = 3 -> <<ms.vs[1], ms.vs[2], ms.vs[3], ms.vs[2]>>
      [] ms.kind = "Quad" /\ Len(ms.vs) = 4 -> <<ms.vs[1], ms.vs[2], ms.vs[3], ms.vs[4]>>
      [] ms.kind = "Sides" ->
            <<IF ms.top # None THEN ms.top[1] ELSE fb[1],
              IF ms.right # None THEN ms.right[1] ELSE fb[2],
              IF ms.bottom # None THEN ms.bottom[1] ELSE fb[3],
              IF ms.left # None THEN ms.left[1] ELSE fb[4]>>

AllZero == <<<<"0">>, <<"0">>, <<"0">>, <<"0">>>>

\* The margin an absent placement gets, as specified.
FallbackOf(resolved_margin) ==
    IF OwnMargin("both") = None
    THEN resolved_margin = <<<<"0">>, <<"0">>, <<"2em">>, <<"0">>>>
    ELSE /\ \A i \in 1..4 : resolved_margin[i] # <<"2em">>
         /\ CoveredSetting(OwnMargin("both")[1])
            => resolved_margin = CssExpand(OwnMargin("both")[1], AllZero)

\* C7: margin fallback.  An absent header or footer margin resolves to
\* 0 0 2em 0 only if margin.both is absent too; with margin.both set the
\* placement gets the margin derived from both and no 2em gap.
C7_MarginFallback ==
    layout_pc = "resolved" =>
        /\ OwnMargin("header") = None => FallbackOf(margin_header)
        /\ OwnMargin("footer") = None => FallbackOf(margin_footer)

\* What the shorthand rule says of a placement whose own margin is set.
ShorthandOf(own, resolved_margin) ==
    (/\ own # None
     /\ CoveredSetting(own[1])
     /\ OwnMargin("both") # None => CoveredSetting(OwnMargin("both")[1]))
    => resolved_margin =
          CssExpand(own[1],
                    IF OwnMargin("both") = None THEN AllZero
                    ELSE CssExpand(OwnMargin("both")[1], AllZero))

\* C8: margin shorthand expansion.  One value for all four sides, [v,h] to
\* [v,h,v,h], [t,h,b] to [t,h,b,h], four values literally, a scalar on all
\* sides, and a per-side record filled from the expanded both margin (zero
\* when both is absent).
C8_MarginShorthand ==
    layout_pc = "resolved" =>
        /\ ShorthandOf(OwnMargin("header"), margin_header)
        /\ ShorthandOf(OwnMargin("footer"), margin_footer)

C8_Witness ==
    /\ layout_pc = "resolved"
    /\ OwnMargin("both") = <<[kind |-> "Quad", vs |-> <<<<"b", "1">>, <<"b", "2">>>>]>>
    /\ OwnMargin("header") =
          <<[kind |-> "Sides", top |-> <<<<"h", "top">>>>, right |-> None,
             bottom |-> None, left |-> None]>>
    /\ OwnMargin("footer") =
          <<[kind |-> "Quad", vs |-> <<<<"f", "1">>, <<"f", "2">>, <<"f", "3">>>>]>>
    /\ margin_header = <<<<"h", "top">>, <<"b", "2">>, <<"b", "1">>, <<"b", "2">>>>
    /\ margin_footer = <<<<"f", "1">>, <<"f", "2">>, <<"f", "3">>, <<"f", "2">>>>

-----------------------------------------------------------------------------
(* C9 *)

\* A concrete text: assigned, and not the result of a panic.
IsConcrete(x) == x \in Seq(STRING) /\ x # <<"<panic>">> /\ x # <<"<unset>">>

IsConcreteMargin(m) == Len(m) = 4 /\ \A i \in 1..4 : IsConcrete(m[i])

\* C9: resolution is total.  For every configuration, whatever is present or
\* absent and whatever the variant and length, each resolver yields a
\* concrete value for header and footer and for all four margin sides.
C9_ResolutionTotal ==
    /\ MessagesResolved => IsConcrete(header_tmpl) /\ IsConcrete(footer_tmpl)
    /\ layout_pc \in {"margins", "resolved"}
          => IsConcrete(align_header) /\ IsConcrete(align_footer)
    /\ layout_pc = "resolved"
          => IsConcreteMargin(margin_header) /\ IsConcreteMargin(margin_footer)

C9_Witness ==
    /\ layout_pc = "resolved"
    /\ OwnMargin("both") = <<[kind |-> "Sides", top |-> None, right |-> None,
                              bottom |-> None, left |-> None]>>
    /\ OwnMargin("header") # None
    /\ OwnMargin("header")[1].kind = "Quad"
    /\ Len(OwnMargin("header")[1].vs) = 5
    /\ OwnMargin("footer") = <<[kind |-> "Quad", vs |-> <<>>]>>
    /\ margin_header = <<<<"h", "1">>, <<"h", "2">>, <<"h", "3">>, <<"h", "4">>>>
    /\ margin_footer = AllZero

-----------------------------------------------------------------------------
(* C10 *)

RECURSIVE Count(_, _)
Count(s, pat) ==
    IF Len(s) < Len(pat) THEN 0
    ELSE (IF SubSeq(s, 1, Len(pat)) = pat THEN 1 ELSE 0) + Count(Tail(s), pat)

NoRecognizedLeft(text) ==
    \A n \in {"hash", "long", "tag", "date", "sep", "branch"} :
        \A i \in 1..(Len(text) - 4) :
            SubSeq(text, i, i + 4) # <<"{", "{", n, "}", "}">>

UnknownKept(template, text) ==
    Count(text, <<"{", "{", "unknown", "}", "}">>)
        = Count(template, <<"{", "{", "unknown", "}", "}">>)

\* C10 as stated: for every template and every set of values the output
\* holds none of the six recognized tokens and keeps every unrecognized one.
C10_PlaceholderCompleteness ==
    rendered # <<"<unset>">> =>
        NoRecognizedLeft(rendered) /\ UnknownKept(tmpl, rendered)

BraceFree(text) == \A i \in 1..Len(text) : text[i] \notin {"{", "}"}

\* The braces of the template are exactly the delimiters of complete
\* placeholders {{name}}.
RECURSIVE WellFormed(_)
WellFormed(t) ==
    IF t = <<>> THEN TRUE
    ELSE IF Head(t) \notin {"{", "}"} THEN WellFormed(Tail(t))
    ELSE /\ Len(t) >= 4
         /\ t[1] = "{"
         /\ t[2] = "{"
         /\ \E k \in 3..(Len(t) - 1) :
               /\ BraceFree(SubSeq(t, 3, k - 1))
               /\ t[k] = "}"
               /\ t[k + 1] = "}"
               /\ WellFormed(SubSeq(t, k + 2, Len(t)))

ValuesBraceFree ==
    /\ BraceFree(vals.hash)
    /\ BraceFree(vals.long_hash)
    /\ BraceFree(vals.tag)
    /\ BraceFree(vals.date)
    /\ BraceFree(vals.sep)
    /\ BraceFree(vals.branch)

\* C10, amended: for every template whose braces are exactly the delimiters
\* of complete placeholders and every set of values that hold no brace, the
\* output holds none of the six recognized tokens and keeps every
\* unrecognized one.
C10_CompletenessOnWellFormed ==
    (rendered # <<"<unset>">> /\ WellFormed(tmpl) /\ ValuesBraceFree) =>
        NoRecognizedLeft(rendered) /\ UnknownKept(tmpl, rendered)

C10_Witness ==
    /\ tmpl = <<"{", "{", "branch", "}", "}", "{", "{", "sep", "}", "}",
                "{", "{", "unknown", "}", "}">>
    /\ vals.sep = <<"hash">>
    /\ rendered = <<"main", "hash", "{", "{", "unknown", "}", "}">>

-----------------------------------------------------------------------------
(* C1 *)

\* C1: page decoration is idempotent: decorating a chapter again, with the
\* same resolved configuration and the same git facts, leaves it as the
\* first decoration left it.
C1_DecorationIdempotent == runs >= 2 => content = first_pass

-----------------------------------------------------------------------------
(* C11 *)

ValueOf(v, n) ==
    CASE n = "hash" -> v.hash
      [] n = "long" -> v.long_hash
      [] n = "tag" -> v.tag
      [] n = "date" -> v.date
      [] n = "sep" -> v.sep
      [] n = "branch" -> v.branch

\* One simultaneous pass: every recognized token of the template is
\* replaced by its value, and what a value introduces is not looked at again.
RECURSIVE OnePass(_, _)
OnePass(t, v) ==
    IF t = <<>> THEN <<>>
    ELSE IF /\ Len(t) >= 5
            /\ t[1] = "{" /\ t[2] = "{" /\ t[4] = "}" /\ t[5] = "}"
            /\ t[3] \in {"hash", "long", "tag", "date", "sep", "branch"}
    THEN ValueOf(v, t[3]) \o OnePass(SubSeq(t, 6, Len(t)), v)
    ELSE <<Head(t)>> \o OnePass(Tail(t), v)

\* C11: substitution is literal, order-independent and non-recursive: the
\* output equals the template with each recognized token replaced by its
\* value in one simultaneous pass, so text introduced by a value is never
\* expanded again.
C11_OneSimultaneousPass ==
    rendered # <<"<unset>">> => rendered = OnePass(tmpl, vals)

-----------------------------------------------------------------------------
(* C12 *)

TagResolved == facts_pc \in {"tag", "display", "rendered"}

NoOverride == cfg_tag = <<>> \/ \A i \in 1..Len(cfg_tag[1]) : cfg_tag[1][i] = " "

\* What a git command printed, without the surrounding white space; nothing
\* when it failed.
Printed(proc) ==
    IF ~proc.success THEN <<>>
    ELSE LET blank(k) == proc.stdout[k] \in {" ", "\n"}
             keep == {k \in 1..Len(proc.stdout) : ~blank(k)}
         IN  IF keep = {} THEN <<>>
             ELSE SubSeq(proc.stdout,
                         CHOOSE a \in keep : \A b \in keep : a <= b,
                         CHOOSE a \in keep : \A b \in keep : a >= b)

\* The first line of a text that begins with a non-blank, without the
\* blanks that end the line.
FirstLine(text) ==
    LET nl == {k \in 1..Len(text) : text[k] = "\n"}
        e == IF nl = {} THEN Len(text)
             ELSE (CHOOSE a \in nl : \A b \in nl : a <= b) - 1
        ink == {k \in 1..e : text[k] # " "}
    IN  IF ink = {} THEN <<>>
        ELSE SubSeq(text, 1, CHOOSE a \in ink : \A b \in ink : a >= b)

\* C12: two-tier tag fallback.  The nearest tag reachable from the branch
\* when that lookup succeeds with a non-empty output; otherwise the first
\* non-empty line of the tag list; the sentinel when neither gives a tag;
\* never the empty string.
C12_TagFallback ==
    (TagResolved /\ NoOverride) =>
        /\ resolved_tag # <<>>
        /\ Printed(git_describe) # <<>> => resolved_tag = Printed(git_describe)
        /\ (Printed(git_describe) = <<>> /\ Printed(git_tags) # <<>>)
              => resolved_tag = FirstLine(Printed(git_tags))
        /\ (Printed(git_describe) = <<>> /\ Printed(git_tags) = <<>>)
              => resolved_tag = <<"No tags found">>

C12_Witness ==
    /\ facts_pc = "tag"
    /\ cfg_tag = <<>>
    /\ git_describe = [success |-> TRUE, stdout |-> <<"\n">>]
    /\ git_tags.success
    /\ Len(git_tags.stdout) = 8
    /\ resolved_tag = <<"v2.0.0">>

-----------------------------------------------------------------------------
(* C13 *)

FactsDisplayed == facts_pc \in {"display", "rendered"}

ExpectedTag ==
    IF NoOverride THEN latest_tag_for_branch(git_describe, git_tags)
    ELSE SelectSeq(cfg_tag[1], LAMBDA a : a # " ")

TagUnresolved == resolved_tag = <<>> \/ resolved_tag = <<"No tags found">>

HasAnchor(text) == \E i \in 1..Len(text) : text[i] = "<a href=\""

\* C13: tag display.  A resolved tag (the override, else the latest tag) is
\* what {{tag}} shows: as plain text when hyperlinking is off or no
\* repository base is known, as an anchor otherwise; "-" is shown only when
\* the tag is unresolved (empty or the sentinel).
C13_TagDisplay ==
    FactsDisplayed =>
        /\ resolved_tag = ExpectedTag
        /\ TagUnresolved => tag_disp = <<"-">>
        /\ (~TagUnresolved /\ (~hyperlink \/ repo_base = <<>>))
              => tag_disp = resolved_tag
        /\ (~TagUnresolved /\ hyperlink /\ repo_base # <<>>)
              => /\ HasAnchor(tag_disp)
                 /\ tag_disp[Len(tag_disp)] = "</a>"
                 /\ SubSeq(tag_disp, Len(tag_disp) - Len(resolved_tag),
                           Len(tag_disp) - 1) = resolved_tag

-----------------------------------------------------------------------------
(* C14 *)

\* C14: hyperlinking.  The rendered text holds an anchor for the hash, the
\* branch or the tag only when hyperlink is on and a repository base was
\* resolved; otherwise the short hash and the branch are plain text, and the
\* default footer reads "commit: ab12cd3" with no anchor.
C14_AnchorsOnlyWithBase ==
    (FactsDisplayed /\ (~hyperlink \/ repo_base = <<>>)) =>
        /\ hash_disp = vals.hash
        /\ branch_disp = vals.branch
        /\ ~HasAnchor(tag_disp)
        /\ facts_pc = "rendered" =>
              /\ ~HasAnchor(rendered)
              /\ tmpl = <<"{", "{", "date", "}", "}", "{", "{", "sep", "}", "}",
                          "commit: ", "{", "{", "hash", "}", "}">>
                    => \E i \in 1..(Len(rendered) - 1) :
                          rendered[i] = "commit: " /\ rendered[i + 1] = "ab12cd3"

C14_Witness ==
    /\ facts_pc = "rendered"
    /\ hyperlink
    /\ repo_base = <<>>
    /\ resolved_tag = <<"v1.2.3">>
    /\ rendered = <<"2026-01-14", " ", "10:00:00", " ", "|", " ", "commit: ", "ab12cd3">>

-----------------------------------------------------------------------------
(* C15 *)

BaseResolved == facts_pc = "base" /\ hyperlink

Joined(server, path) ==
    (IF server[Len(server)] = "/" THEN SubSeq(server, 1, Len(server) - 1) ELSE server)
        \o <<"/">> \o path

\* The five sources in their order: whether each matches, and its value.
RepoSources ==
    LET gh == repo_env.GITHUB_SERVER_URL # <<>> /\ repo_env.GITHUB_REPOSITORY # <<>>
        gl == repo_env.CI_SERVER_URL # <<>> /\ repo_env.CI_PROJECT_PATH # <<>>
        bo == repo_env.BITBUCKET_GIT_HTTP_ORIGIN # <<>>
        bf == repo_env.BITBUCKET_REPO_FULL_NAME # <<>>
    IN  << [matches |-> gh,
            value |-> IF gh THEN Joined(repo_env.GITHUB_SERVER_URL[1],
                                        repo_env.GITHUB_REPOSITORY[1])
                      ELSE <<>>],
           [matches |-> gl,
            value |-> IF gl THEN Joined(repo_env.CI_SERVER_URL[1],
                                        repo_env.CI_PROJECT_PATH[1])
                      ELSE <<>>],
           [matches |-> bo,
            value |-> IF bo THEN normalise_repo_base(repo_env.BITBUCKET_GIT_HTTP_ORIGIN[1])
                      ELSE <<>>],
           [matches |-> bf,
            value |-> IF bf THEN <<"https://", "bitbucket.org", "/">>
                                    \o repo_env.BITBUCKET_REPO_FULL_NAME[1]
                      ELSE <<>>],
           [matches |-> git_remote.success,
            value |-> normalise_repo_base(git_remote.stdout)] >>

\* C15: repository base priority.  The result is the value of the first
\* source that matches, in the order GitHub pair, GitLab pair, Bitbucket
\* origin, Bitbucket full name, local remote; a pair matches only with both
\* of its variables; the result is None exactly when no source matches.
C15_RepoBasePriority ==
    BaseResolved =>
        /\ repo_base = <<>> <=> \A i \in 1..5 : ~RepoSources[i].matches
        /\ \A i \in 1..5 :
              (RepoSources[i].matches /\ \A j \in 1..(i - 1) : ~RepoSources[j].matches)
                 => repo_base = <<RepoSources[i].value>>

C15_Witness ==
    /\ BaseResolved
    /\ repo_env.GITHUB_SERVER_URL # <<>>
    /\ repo_env.GITHUB_REPOSITORY = <<>>
    /\ repo_env.CI_SERVER_URL # <<>>
    /\ repo_env.CI_PROJECT_PATH # <<>>
    /\ repo_env.BITBUCKET_GIT_HTTP_ORIGIN # <<>>
    /\ git_remote.success
    /\ repo_base = <<<<"https://", "gitlab", ".example", "/", "grp", "/", "proj">>>>

-----------------------------------------------------------------------------
(* C16 *)

\* The https form of a remote URL: user@host:path and ssh://user@host/path
\* become https://host/path, one trailing .git is dropped, and a URL that is
\* https already only loses the suffix.
HttpsForm(url) ==
    LET body == IF url[Len(url)] = ".git" THEN SubSeq(url, 1, Len(url) - 1) ELSE url
        colon == CHOOSE k \in 1..Len(body) : body[k] = ":"
    IN  IF body[1] = "https://" THEN body
        ELSE IF body[1] = "ssh://" THEN <<"https://">> \o SubSeq(body, 4, Len(body))
        ELSE <<"https://">> \o SubSeq(body, 3, colon - 1) \o <<"/">>
                \o SubSeq(body, colon + 1, Len(body))

NoEnvSet == \A n \in DOMAIN repo_env : repo_env[n] = <<>>

\* C16: remote URL normalisation, for every host, user, org and repo.
C16_RemoteNormalised ==
    (BaseResolved /\ NoEnvSet /\ git_remote.success) =>
        repo_base = <<HttpsForm(Printed(git_remote))>>

-----------------------------------------------------------------------------
(* C17 *)

GitRosterBuilt ==
    roster_pc = "global" /\ source = "Git" /\ renderer.enabled /\ git_shortlog.success

HandleAlphabet == {AsciiOrder[i] : i \in 1..Len(AsciiOrder)}

\* Length 1 to 39, characters in [A-Za-z0-9-], no hyphen first or last.
PlausibleAsStated(u) ==
    /\ Len(u) >= 1
    /\ Len(u) <= 39
    /\ \A i \in 1..Len(u) : u[i] \in HandleAlphabet
    /\ u[1] # "-"
    /\ u[Len(u)] # "-"

RejectedExamples ==
    { <<"-", "b", "a", "d">>, <<"b", "a", "d", "-">>, [i \in 1..40 |-> "a"],
      <<"h", "a", "s", " ", "s", "p", "a", "c", "e">> }

\* C17: username plausibility.  A name is accepted as a handle if and only
\* if it has 1 to 39 characters of [A-Za-z0-9-] and no hyphen first or last;
\* "-bad", "bad-", a 40-character string and "has space" are rejected; every
\* handle the shortlog yields satisfies the predicate.
C17_UsernamePlausibility ==
    GitRosterBuilt =>
        /\ \A i \in 1..Len(derivation) :
              derivation[i].via # "skipped"
                 => /\ derivation[i].via = "name" <=> PlausibleAsStated(derivation[i].name)
                    /\ derivation[i].name \in RejectedExamples
                          => derivation[i].via # "name"
        /\ \A i \in 1..Len(roster_users) : PlausibleAsStated(roster_users[i])

C17_Witness ==
    /\ GitRosterBuilt
    /\ Len(derivation) = 3
    /\ derivation[1].name = <<"b", "a", "d", "-">>
    /\ derivation[1].via = "email"
    /\ Len(derivation[2].name) = 40
    /\ derivation[2].via = "none"
    /\ Len(derivation[3].name) = 39
    /\ derivation[3].via = "name"
    /\ Len(roster_users) = 2

-----------------------------------------------------------------------------
(* C18 *)

Numeric(t) ==
    /\ t # <<>>
    /\ \A i \in 1..Len(t) : t[i] \in {"0", "1", "2", "3", "4", "5", "6", "7", "8", "9"}

LocalPart(email) == SubSeq(email, 1, Len(email) - 1)

FirstPlus(t) ==
    LET at == {k \in 1..Len(t) : t[k] = "+"}
    IN  IF at = {} THEN 0 ELSE CHOOSE a \in at : \A b \in at : a <= b

\* username@users.noreply.<host>, or <numeric-id>+username@users.noreply.<host>
UsernameAnyHost(email) ==
    LET local == LocalPart(email)
        k == FirstPlus(local)
    IN  IF email = <<>> THEN <<>>
        ELSE IF email[Len(email)] \notin {"@users.noreply.github.com",
                                          "@users.noreply.gitlab.com"}
        THEN <<>>
        ELSE IF k > 0 /\ Numeric(SubSeq(local, 1, k - 1))
        THEN SubSeq(local, k + 1, Len(local))
        ELSE local

\* An email ending in @users.noreply.github.com: what follows the first "+"
\* of the local part when that is not empty, else the whole local part.
UsernameGithub(email) ==
    LET local == LocalPart(email)
        k == FirstPlus(local)
    IN  IF email = <<>> THEN <<>>
        ELSE IF email[Len(email)] # "@users.noreply.github.com" THEN <<>>
        ELSE IF k > 0 /\ k < Len(local) THEN SubSeq(local, k + 1, Len(local))
        ELSE local

HandleFrom(name, username) ==
    IF PlausibleAsStated(name) THEN <<name>>
    ELSE IF PlausibleAsStated(username) THEN <<username>>
    ELSE <<>>

EmailOf(entry) == IF entry.email = <<>> THEN <<>> ELSE entry.email[1]

\* The list holds exactly the handles of the lines, once each, ascending.
SortedHandles ==
    /\ {roster_users[i] : i \in 1..Len(roster_users)}
          = {derivation[i].handle[1] :
                i \in {k \in 1..Len(derivation) : derivation[k].handle # <<>>}}
    /\ \A i \in 1..Len(roster_users) : \A j \in (i + 1)..Len(roster_users) :
          LexLess(roster_users[i], roster_users[j])

-----------------------------------------------------------------------------
(* C19 *)

RosterComputed ==
    \/ GitRosterBuilt
    \/ roster_pc = "global" /\ source = "File" /\ renderer.enabled
    \/ roster_pc = "inline"

Remaining == SelectSeq(roster_users, LAMBDA u : u \notin renderer.excluded)

\* C19: roster partition.  visible ++ hidden is the raw list without the
\* excluded handles, in input order; visible has min(N, remaining) handles;
\* hidden is empty when at most N remain; no excluded handle is listed; for
\* the git, file and inline sources alike.
C19_RosterPartition ==
    RosterComputed =>
        /\ roster_visible \o roster_hidden = Remaining
        /\ Len(roster_visible)
              = IF renderer.max_visible < Len(Remaining) THEN renderer.max_visible
                ELSE Len(Remaining)
        /\ Len(Remaining) <= renderer.max_visible => roster_hidden = <<>>
        /\ \A i \in 1..Len(roster_visible) : roster_visible[i] \notin renderer.excluded
        /\ \A i \in 1..Len(roster_hidden) : roster_hidden[i] \notin renderer.excluded

C19_Witness ==
    /\ roster_pc = "inline"
    /\ inline_args = << <<"a", "l">>, <<"b", "o">>, <<"c", "y">> >>
    /\ renderer.excluded = {<<"a", "l">>}
    /\ renderer.max_visible = 1
    /\ roster_visible = << <<"b", "o">> >>
    /\ roster_hidden = << <<"c", "y">> >>

-----------------------------------------------------------------------------
(* C20 *)

\* C20: roster uniqueness.  The roster built from the commit history or from
\* the contributors file lists no handle twice across visible and hidden.
C20_RosterUnique ==
    (RosterComputed /\ source \in {"Git", "File"}) =>
        LET listed == roster_visible \o roster_hidden
        IN  \A i \in 1..Len(listed) : \A j \in 1..Len(listed) :
               i # j => listed[i] # listed[j]

-----------------------------------------------------------------------------
(* C21 *)

\* The words written after the keyword of a token line: what stands between
\* the opening and the closing delimiter, cut at white space, less the first
\* word.
ArgsAfterKeyword(line) ==
    LET t == Trim(line)
        words == SplitWhitespace(SubSeq(t, 3, Len(t) - 2))
    IN  SubSeq(words, 2, Len(words))

\* The roster block of a handle list: the excluded handles dropped, the
\* first max_visible of the rest visible, the others hidden.
HandleBlock(handles) ==
    LET kept == SelectSeq(handles, LAMBDA u : u \notin renderer.excluded)
        n    == IF renderer.max_visible < Len(kept) THEN renderer.max_visible
                ELSE Len(kept)
    IN  render_contributors_hbs(renderer.title, SubSeq(kept, 1, n),
                                SubSeq(kept, n + 1, Len(kept)))

\* A replaced line pushes a line break, the trimmed block and a blank line.
Pushed(block) == Nl \o Trim(block) \o Nl \o Nl

\* C21: source-mode handling of token arguments.  With contributors enabled,
\* a replaced token of the inline source is replaced by the roster block of
\* its own arguments (exclusions dropped, split at the cap) and by empty
\* content when it has no argument; with the git or file source every
\* replaced token, with or without arguments, is replaced by the one
\* precomputed global roster block.
C21_SourceModeArguments ==
    renderer.enabled =>
        \A k \in 1..idx :
            hist[k].arm = "token" =>
                LET args == ArgsAfterKeyword(input[k])
                IN  /\ (source = "Inline" /\ args # <<>>)
                          => hist[k].chunk = Pushed(HandleBlock(args))
                    /\ (source = "Inline" /\ args = <<>>)
                          => hist[k].chunk = Pushed(<<>>)
                    /\ source \in {"Git", "File"}
                          => hist[k].chunk = Pushed(html_global)

C21_Witness ==
    /\ idx = 2
    /\ input = <<TokenWithArgs \o Nl, Token \o Nl>>
    /\ source = "Inline"
    /\ renderer.enabled
    /\ renderer.excluded = {<<"b">>}
    /\ renderer.max_visible = 1
    /\ hist[1].arm = "token"
    /\ Contains(hist[1].chunk, <<"<visible>", "a", "\n", "  ", "<hidden>", "c">>)
    /\ ~Contains(hist[1].chunk, <<"b">>)
    /\ hist[2].chunk = <<"\n", "\n", "\n">>

-----------------------------------------------------------------------------
(* C22 *)

\* C22: tokens are stripped when contributors are disabled.  With
\* contributors disabled, every roster token line outside the fenced and
\* the indented code regions is replaced by empty content (a line break and
\* a blank line, no roster markup and no handle), for every source and with
\* or without arguments.
C22_DisabledStripping ==
    ~renderer.enabled =>
        \A k \in 1..idx :
            (/\ input[k] \in PlainTokenLines
             /\ ~hist[k].before.in_fence
             /\ ~FenceLike(input[k]))
            => /\ hist[k].arm = "token"
               /\ hist[k].chunk = Pushed(<<>>)
               /\ \A j \in 1..Len(hist[k].chunk) : hist[k].chunk[j] = "\n"

C22_Witness ==
    /\ idx = 3
    /\ input = <<TokenWithArgs \o Nl, Token \o Nl,
                 <<"\t">> \o Token \o Nl>>
    /\ source = "Inline"
    /\ ~renderer.enabled
    /\ out = <<"\n", "\n", "\n", "\n", "\n", "\n">> \o <<"\t">> \o Token \o Nl

-----------------------------------------------------------------------------
(* C24 *)

TimeFormatted == time_pc = "done"

\* C24: unparseable timestamp.  Whenever the raw timestamp is not an RFC 3339
\* timestamp with an explicit offset (the empty string of a failed lookup
\* included), the formatter returns exactly "unknown", for every timezone
\* setting and every pair of patterns, and does not panic.
C24_UnparseableTimestamp ==
    (TimeFormatted /\ raw_date \in BrokenDates) => formatted_date = <<"unknown">>

C24_Witness ==
    /\ TimeFormatted
    /\ raw_date = <<>>
    /\ timezone = Some(<<"fixed:", "+", "1", "1", "9", "3", "0", "4", "7", ":", "0", "0">>)
    /\ time_format = <<>>
    /\ formatted_date = <<"unknown">>

-----------------------------------------------------------------------------
(* C25 *)

\* The days from 2000-01-01 to a date, and the instant of a timestamp in
\* seconds from 2000-01-01T00:00:00Z.
DayNumber(y, mo, d) ==
    365 * (y - 2000) + Cardinality({k \in 2000..(y - 1) : IsLeap(k)})
        + Cardinality({<<k, j>> \in (1..(mo - 1)) \X (1..31) : j <= DaysIn(y, k)})
        + (d - 1)

Instant(dt) == DayNumber(dt.y, dt.mo, dt.d) * 86400 + dt.secs - dt.off

Parsed == parse_from_rfc3339(raw_date)[1]

\* The wall clock that shows the instant of the parsed timestamp at an offset.
ShownAt(off) ==
    CHOOSE c \in [y : (Parsed.y - 1)..(Parsed.y + 1), mo : 1..12, d : 1..31,
                  secs : {(Instant(Parsed) + off) % 86400}, off : {off}] :
        /\ c.d <= DaysIn(c.y, c.mo)
        /\ Instant(c) = Instant(Parsed)

Expected(off) ==
    Format(ShownAt(off), Trim(date_format \o <<" ">> \o time_format))

\* The timezone setting as compared: trimmed, in lower case.
TzSetting == ToAsciiLowercase(Trim(UnwrapOr(timezone, <<"local">>)))

IsFixedSetting == TzSetting # <<>> /\ Head(TzSetting) = "fixed:"

\* The text after "fixed:" is +HH:MM or -HH:MM with HH < 24 and MM < 60.
WellFormedOffset ==
    LET o == Tail(TzSetting)
    IN  /\ Len(o) = 6
        /\ o[1] \in {"+", "-"}
        /\ AllDigits(SubSeq(o, 2, 3))
        /\ o[4] = ":"
        /\ AllDigits(SubSeq(o, 5, 6))
        /\ Number(SubSeq(o, 2, 3)) < 24
        /\ Number(SubSeq(o, 5, 6)) < 60

WrittenOffset ==
    LET o == Tail(TzSetting)
        a == Number(SubSeq(o, 2, 3)) * 3600 + Number(SubSeq(o, 5, 6)) * 60
    IN  IF o[1] = "-" THEN -a ELSE a

\* The modes with a stated offset render the instant at that offset.
StatedModes ==
    (TimeFormatted /\ raw_date \in CommitDates) =>
        /\ TzSetting = <<"utc">> => formatted_date = Expected(0)
        /\ TzSetting = <<"source">> => formatted_date = Expected(Parsed.off)
        /\ (IsFixedSetting /\ WellFormedOffset)
              => formatted_date = Expected(WrittenOffset)

\* C25: timezone conversion.  For a parsed timestamp, utc renders the wall
\* clock at offset zero, source at the timestamp's own offset, fixed:+HH:MM
\* and fixed:-HH:MM at that offset (the instant is kept, the day rolls
\* over); a fixed offset with invalid syntax or out of range falls back to
\* the local zone.
C25_TimezoneConversion ==
    /\ StatedModes
    /\ (TimeFormatted /\ raw_date \in CommitDates
           /\ IsFixedSetting /\ ~WellFormedOffset)
          => formatted_date = Expected(local_offset)

-----------------------------------------------------------------------------
(* C27 *)

Walked == walk_pc = "done"

\* The node of an item at a position.
RECURSIVE NodeAt(_, _)
NodeAt(it, pos) ==
    IF pos = <<>> THEN it ELSE NodeAt(it.sub_items[Head(pos)], Tail(pos))

\* The positions of all nodes of an item.
RECURSIVE Positions(_)
Positions(it) ==
    {<<>>} \cup (IF it.kind # "Chapter" THEN {}
                ELSE UNION {{<<i>> \o q : q \in Positions(it.sub_items[i])} :
                               i \in 1..Len(it.sub_items)})

ChapterPositions(it) == {q \in Positions(it) : NodeAt(it, q).kind = "Chapter"}

\* p comes before q in document order, a parent before what is below it.
Before(p, q) ==
    \/ Len(p) < Len(q) /\ SubSeq(q, 1, Len(p)) = p
    \/ \E k \in 1..Len(p) :
          /\ k <= Len(q)
          /\ SubSeq(p, 1, k - 1) = SubSeq(q, 1, k - 1)
          /\ p[k] < q[k]

\* C27: the tree walk.  The callback is applied to every chapter below the
\* item, at every depth, a parent before its sub-chapters and siblings in
\* document order; items that are no chapters are untouched; the tree keeps
\* its nodes and their order; only the body of a chapter that has a path is
\* rewritten.
C27_TreeWalk ==
    Walked =>
        /\ {visited[i] : i \in 1..Len(visited)} = ChapterPositions(item)
        /\ \A i \in 1..Len(visited) : \A j \in 1..Len(visited) :
              i < j => Before(visited[i], visited[j])
        /\ Positions(walked) = Positions(item)
        /\ \A q \in Positions(item) :
              LET old == NodeAt(item, q)
                  new == NodeAt(walked, q)
              IN  /\ new.kind = old.kind
                  /\ old.kind # "Chapter" => new = old
                  /\ old.kind = "Chapter" =>
                        /\ new.path = old.path
                        /\ Len(new.sub_items) = Len(old.sub_items)
                        /\ ~IsSome(old.path) => new.content = old.content
                        /\ IsSome(old.path)
                              => new.content = DecorateChapter(old.content, vals)

C27_Witness ==
    /\ Walked
    /\ item = Chapter(Some(<<"a.md">>), ChapterBody,
                      << Chapter(None, ChapterBody,
                                 <<Separator, Chapter(Some(<<"a.md">>), ChapterBody, <<>>)>>),
                         Chapter(Some(<<"a.md">>), ChapterBody, <<>>) >>)
    /\ visited = << <<>>, <<1>>, <<1, 2>>, <<2>> >>
    /\ walked.content # ChapterBody
    /\ walked.sub_items[1].content = ChapterBody
    /\ walked.sub_items[1].sub_items[2].content = walked.content
    /\ walked.sub_items[1].sub_items[1] = Separator

-----------------------------------------------------------------------------
(* C28 *)

\* The value of output.html.additional-css as the file reads: the tokens
\* after "=" on the additional-css line that follows the [output.html]
\* header with no other header in between; the empty sequence when there is
\* no such line.
ListedValue(file) ==
    LET ls == file[1]
        at == {i \in 1..Len(ls) :
                 /\ ls[i][1] = "additional-css"
                 /\ \E h \in 1..(i - 1) :
                       /\ ls[h] = <<"[output.html]">>
                       /\ \A m \in (h + 1)..(i - 1) : Len(ls[m]) > 1}
    IN  IF at = {} THEN <<>>
        ELSE LET l == ls[CHOOSE i \in at : TRUE] IN SubSeq(l, 3, Len(l))

IsArrayValue(v) == Len(v) >= 2 /\ v[1] = "[" /\ v[Len(v)] = "]"

IsStringValue(v) == Len(v) = 3 /\ v[1] = Quote /\ v[3] = Quote

\* The entries of an array value, each as its tokens.
Entries(v) == SplitCommas(SubSeq(v, 2, Len(v) - 1))

ThePath == <<Quote, "theme/gitinfo.css", Quote>>

Lists(es, x) == \E i \in 1..Len(es) : es[i] = x

\* One call of ensure_book_toml_additional_css on an existing file.
RegisteredOnce(h) ==
    LET old == ListedValue(h.before)
        new == ListedValue(h.after)
    IN  /\ h.result = "Ok" =>
              /\ IsArrayValue(new)
              /\ Lists(Entries(new), ThePath)
              /\ IsArrayValue(old) =>
                    /\ Lists(Entries(old), ThePath) => Entries(new) = Entries(old)
                    /\ ~Lists(Entries(old), ThePath)
                          => Entries(new) = Append(Entries(old), ThePath)
              /\ IsStringValue(old) =>
                    Entries(new) = IF old = ThePath THEN <<old>> ELSE <<old, ThePath>>
              /\ old = <<>> => Entries(new) = <<ThePath>>
        /\ (old # <<>> /\ ~IsArrayValue(old) /\ ~IsStringValue(old))
              => h.result = "Err" /\ h.after = h.before
        /\ h.wrote <=> h.after # h.before

\* C28: stylesheet registration.  After a successful call on an existing
\* book.toml, output.html.additional-css is an array that lists
\* theme/gitinfo.css and keeps the entries it had, in order (a bare string
\* becomes an array of one or two entries); the path is not appended when
\* already listed; a second run leaves the file unchanged; the stylesheet is
\* written only when its content differs; a value that is neither string
\* nor array gives an error and the file is left as it was.
C28_StylesheetRegistration ==
    \A k \in 1..Len(theme_hist) :
        LET h == theme_hist[k]
        IN  /\ (h.op = "toml" /\ IsSome(h.before) /\ ParsesAsToml(h.before[1]))
                  => RegisteredOnce(h)
            /\ (h.op = "toml" /\ k > 2 /\ theme_hist[k - 2].result = "Ok")
                  => ~h.wrote /\ h.after = h.before /\ h.result = "Ok"
            /\ h.op = "css" =>
                  /\ h.wrote => (h.before # Some(GITINFO_CSS) /\ h.after = Some(GITINFO_CSS))
                  /\ ~h.wrote => h.after = h.before
                  /\ h.result = "Ok" => h.after = Some(GITINFO_CSS)

C28_Witness ==
    /\ Len(theme_hist) = 4
    /\ theme_hist[2].before
          = Some(<<BookLine, HtmlLine,
                   <<"additional-css", "=", Quote, "custom.css", Quote>>>>)
    /\ theme_hist[2].wrote
    /\ book_toml = Some(<<BookLine, HtmlLine,
                          <<"additional-css", "=", "[", Quote, "custom.css", Quote, ",",
                            Quote, "theme/gitinfo.css", Quote, "]">>>>)
    /\ ~theme_hist[4].wrote
    /\ theme_hist[1].wrote
    /\ ~theme_hist[3].wrote
    /\ css_file = Some(GITINFO_CSS)

-----------------------------------------------------------------------------
(* C29 *)

Decorated == runs >= 1

\* C29: the insertion guards act at the expected position.  After a
\* decoration a chapter with the header on starts with the rendered header
\* block and a chapter with the footer on ends with the rendered footer
\* block, also when the same markup stands elsewhere in the body: a block is
\* skipped only when it is already at its place.
C29_InsertionGuards ==
    Decorated =>
        /\ show_header
              => StartsWith(content, BlockHtml(TRUE, vals) \o <<"\n", "\n">>)
        /\ show_footer
              => EndsWith(content, BlockHtml(FALSE, vals) \o <<"\n">>)

\* The header guard alone.
HeaderAtStart ==
    (Decorated /\ show_header)
        => StartsWith(content, BlockHtml(TRUE, vals) \o <<"\n", "\n">>)

-----------------------------------------------------------------------------
(* C23 *)

RunLoaded == run_pc \notin {"idle", "start"}

\* Every chapter was reached, and a chapter with a path got its facts with
\* each failed lookup replaced by the empty string.
AllPagesDecorated ==
    /\ Len(page_facts) = Len(pages)
    /\ \A i \in 1..Len(pages) :
          pages[i] =>
              LET f == page_facts[i]
              IN  /\ f.decorated
                  /\ ~f.lookups.short.success => f.short_hash = <<>>
                  /\ ~f.lookups.long.success => f.long_hash = <<>>
                  /\ ~f.lookups.date.success
                        => f.raw_date = <<>> /\ f.date = <<"unknown">>

\* What holds of every run that does not panic.
FailuresReplaced ==
    /\ (RunLoaded /\ config_table.kind # "table") => run_cfg = DefaultConfig
    /\ run_pc = "done" => AllPagesDecorated

\* C23: no failure aborts the run.  The run returns Ok for every input: an
\* absent or malformed configuration table gives the defaults, a failing
\* git lookup or roster render is replaced by an empty value, and every
\* chapter is still decorated.
C23_NoAbort ==
    /\ run_pc # "panicked"
    /\ FailuresReplaced

-----------------------------------------------------------------------------
(* C26 *)

BranchVerified == run_pc \in {"roster", "walk", "done", "panicked"}

\* The branch the user configured, main when none is configured.
ConfiguredBranch ==
    IF config_table.kind = "table" /\ IsSome(config_table.fields.branch)
    THEN config_table.fields.branch[1]
    ELSE <<"main">>

CallsOf(ops) == {i \in 1..Len(git_calls) : git_calls[i].op \in ops}

LogCalls == CallsOf({"log %h", "log %H", "log %cI"})

\* C26: branch fallback.  The branch of every per-chapter hash and date
\* lookup and of the branch display is the configured branch when its
\* verification call exits successfully and "main" when it does not.
C26_BranchFallback ==
    BranchVerified =>
        \E v \in CallsOf({"verify"}) :
            LET used == IF git_calls[v].success THEN ConfiguredBranch ELSE <<"main">>
            IN  /\ CallsOf({"verify"}) = {v}
                /\ git_calls[v].branch = ConfiguredBranch
                /\ run_branch = used
                /\ \A i \in LogCalls : git_calls[i].branch = used
                /\ \A k \in 1..Len(page_facts) :
                      page_facts[k].decorated => page_facts[k].branch_disp = used

C26_Witness ==
    /\ run_pc = "done"
    /\ ConfiguredBranch = <<"dev">>
    /\ \E v \in CallsOf({"verify"}) : ~git_calls[v].success
    /\ Len(page_facts) = 2
    /\ page_facts[1].decorated /\ page_facts[1].branch_disp = <<"main">>
    /\ page_facts[2].decorated /\ page_facts[2].short_hash = <<"ab12cd3">>
    /\ Cardinality(LogCalls) = 6
    /\ \A i \in LogCalls : git_calls[i].branch = <<"main">>

-----------------------------------------------------------------------------
(* C30 *)

TagOverride ==
    /\ config_table.kind = "table"
    /\ IsSome(config_table.fields.tag)
    /\ Trim(config_table.fields.tag[1]) # <<>>

\* C30: one branch per run.  The tag lookup (made only when no non-blank
\* tag is configured) and all per-chapter lookups use one branch, the
\* verified branch or "main" after the fallback; the tag is resolved once
\* and is the same for every chapter.
C30_OneBranchPerRun ==
    /\ BranchVerified =>
          \A i \in CallsOf({"describe"}) \cup LogCalls : git_calls[i].branch = run_branch
    /\ TagOverride => CallsOf({"describe"}) = {}
    /\ \A k \in 1..Len(page_facts) :
          page_facts[k].decorated => page_facts[k].tag = resolved_tag

\* What holds of the tag.
TagOncePerRun ==
    /\ (BranchVerified /\ TagOverride)
          => CallsOf({"describe"}) = {} /\ resolved_tag = Trim(config_table.fields.tag[1])
    /\ (BranchVerified /\ ~TagOverride) => Cardinality(CallsOf({"describe"})) = 1
    /\ \A k \in 1..Len(page_facts) :
          page_facts[k].decorated => page_facts[k].tag = resolved_tag

=============================================================================
